---- MODULE Spec2Model ----
(***************************************************************************)
(* Model of the Copilot SDK control-plane client                           *)
(* (python/copilot/client.py, python/copilot/session.py).                  *)
(*                                                                         *)
(* Asynchronous methods are cut at their await points: a task runs from    *)
(* one await to the next as one action, as on a single asyncio event loop. *)
(* The JSON-RPC multiplexer and the remote runtime are the environment:    *)
(* every awaited request is answered, successfully or with a failure, by   *)
(* a later action.                                                         *)
(***************************************************************************)
EXTENDS Integers, Sequences, FiniteSets, Bags, TLC

\* ---------------------------------------------------------------- bounds
\* start() attempts that spawn a process or attach a transport.
MaxStarts == 2
\* elements of a list of models after the application changed it.
MaxLen == 3
\* CopilotSession objects one client may construct.
MaxObjs == 2
\* lifecycle handler registrations (calls of client.on) made, and held at one
\* time where the calls are not recorded.
MaxSubs == 2
\* session.event notifications whose deliveries are recorded.
MaxEvents == 2
\* inbound requests whose callback has been called and has not ended.
MaxPending == 1

\* ------------------------------------------------------------ small sets
Tasks == {"t1", "t2"}
\* Session ids in the order in which the remote hands them out.
IdSeq == <<"s1", "s2", "s3", "s4">>
SessionIds == {IdSeq[i] : i \in 1..MaxObjs}
\* list objects alive at one time: the cache value, one list per task, and the
\* one being built.
ListIds == 1..(Cardinality(Tasks) + 2)
None == 0

VARIABLES
    opts,       \* CopilotClient.options / _is_external_server, fixed at construction
    active,     \* caller tasks that drive this client
    state,      \* CopilotClient._state
    client,     \* CopilotClient._client: None or a JsonRpcClient object
    process,    \* CopilotClient._process: None, a Popen object or a SocketWrapper
    portKnown,  \* CopilotClient._actual_port is not None
    transports, \* JsonRpcClient objects created so far: TRUE while running
    procs,      \* operating-system processes spawned so far
    signals,    \* terminate()/kill() calls made on process objects
    sessions,   \* CopilotClient._sessions, in dict order
    objs,       \* CopilotSession objects constructed so far
    cache,      \* CopilotClient._models_cache: None or a list object
    lists,      \* list objects (models cache value and the copies returned)
    lock,       \* CopilotClient._models_cache_lock holder
    waiters,    \* tasks queued on _models_cache_lock, FIFO
    pc,         \* where each caller task is suspended
    tloc,       \* locals of the call each task is in
    res,        \* the call the latest step finished, if any, and its outcome
    held,       \* the list object each task got from its last list_models call
    last,       \* the inbound message the latest step handled or answered, if
                \* any: the callbacks the step called (calls), those called
                \* for the message in this or an earlier step (ran), and the
                \* reply, or out = "pending" while a callback has not ended
    pending,    \* the inbound requests suspended in `await result`, as a bag
                \* of the replies they will give
    meter,      \* since the cache was last warm: models.list requests issued
                \* ("0", "1", "many") and whether one of them failed
    lifecycle,  \* CopilotClient._typed_lifecycle_handlers and _lifecycle_handlers,
                \* and, when opts.trace, the calls of client.on made so far
                \* (regs): type, handler and whether the unsubscribe function
                \* that was returned has not been called
    remote,     \* session ids the remote runtime has a live session for
    guard,      \* the locks of the latest step: those it took (took), whether it
                \* read or wrote _sessions outside the registry lock (bare), and
                \* those it held while it called a callback (under)
    ctor,       \* the call of CopilotClient(options), where it is followed: the
                \* options passed, whether __init__ returned or raised, and the
                \* _actual_host and _actual_port it left
    log         \* history of the first session id, kept when opts.trace: how
                \* many session.event notifications for it arrived (they are
                \* numbered in arrival order), and for each subscriber of its
                \* session the number of the last event before it subscribed
                \* and the numbers of the events it was called with since

vars == <<opts, active, state, client, process, portKnown, transports, procs,
          signals, sessions, objs, cache, lists, lock, waiters, pc, tloc, res,
          held, last, pending, meter, lifecycle, remote, guard, ctor, log>>

NoResult == [kind |-> "none", text |-> <<>>, rtype |-> "none", error |-> <<>>,
             dc |-> FALSE]
PyNone == [NoResult EXCEPT !.kind = "None"]

NoLast == [method |-> "none", sid |-> "none", call |-> "none", name |-> "none",
           out |-> "none",
           err |-> "none", result |-> NoResult, calls |-> <<>>, ran |-> <<>>]

NoSnap == [state |-> "none", attached |-> FALSE, cached |-> FALSE, proc |-> None,
           nsess |-> 0]

NoRes ==
    [task |-> "none", op |-> "none", again |-> FALSE, out |-> "none", taken |-> <<>>, tried |-> <<>>, errs |-> <<>>,
     sid |-> "none", obj |-> None, sent |-> <<>>, reply |-> "none", had |-> {},
     steps |-> <<>>, subs |-> {}, pre |-> NoSnap, post |-> NoSnap]

NoGuard == [took |-> {}, bare |-> FALSE, under |-> {}]

\* The whole program state as one record, so that the code between two awaits
\* composes as a function from state to state. A step starts with no call
\* finished and no inbound message handled.
Cur ==
    [opts |-> opts, active |-> active, state |-> state, client |-> client,
     process |-> process, portKnown |-> portKnown, transports |-> transports,
     procs |-> procs, signals |-> signals, sessions |-> sessions, objs |-> objs,
     cache |-> cache, lists |-> lists, lock |-> lock, waiters |-> waiters,
     pc |-> pc, tloc |-> tloc, res |-> NoRes, held |-> held, last |-> NoLast,
     pending |-> pending,
     meter |-> meter, lifecycle |-> lifecycle, remote |-> remote,
     guard |-> NoGuard, ctor |-> ctor, log |-> log]

Apply(S) ==
    /\ opts' = S.opts /\ active' = S.active /\ state' = S.state
    /\ client' = S.client /\ process' = S.process /\ portKnown' = S.portKnown
    /\ transports' = S.transports /\ procs' = S.procs /\ signals' = S.signals
    /\ sessions' = S.sessions /\ objs' = S.objs /\ cache' = S.cache
    /\ lists' = S.lists /\ lock' = S.lock /\ waiters' = S.waiters
    /\ pc' = S.pc /\ tloc' = S.tloc /\ res' = S.res /\ last' = S.last
    /\ meter' = S.meter /\ held' = S.held /\ pending' = S.pending
    /\ lifecycle' = S.lifecycle /\ remote' = S.remote /\ log' = S.log
    /\ ctor' = S.ctor /\ guard' = S.guard

\* ------------------------------------------------------- call bookkeeping
Snap(S) ==
    [state |-> S.state, attached |-> S.client # None, cached |-> S.cache # None,
     proc |-> S.process, nsess |-> Len(S.sessions)]

NoLoc ==
    [op |-> "none", again |-> FALSE, taken |-> <<>>, tried |-> <<>>, errs |-> <<>>, sid |-> "none",
     conf |-> "none", live |-> FALSE, waited |-> FALSE, tr |-> None, obj |-> None,
     sent |-> <<>>, reply |-> "none", had |-> {}, steps |-> <<>>,
     subs |-> {}, idle |-> FALSE, failed |-> FALSE, msg |-> FALSE, pre |-> NoSnap]

\* A caller task enters a public method; again = it is stop(), and the call
\* the task made before it was stop() too.
Begin(S, t, op) ==
    [S EXCEPT !.tloc[t] = [NoLoc EXCEPT !.op = op,
                                        !.again = op = "stop" /\ S.tloc[t].again,
                                        !.pre = Snap(S)]]

\* The call returns (out = "ok") or raises (out = "raise") to its caller.
Done(S, t, out) ==
    LET L == S.tloc[t] IN
    [S EXCEPT !.pc[t] = "idle", !.tloc[t] = [NoLoc EXCEPT !.again = L.op = "stop"],
              !.res = [task |-> t, op |-> L.op, again |-> L.again, out |-> out, taken |-> L.taken,
                       tried |-> L.tried, errs |-> L.errs, sid |-> L.sid,
                       obj |-> L.obj, sent |-> L.sent, reply |-> L.reply,
                       had |-> L.had, steps |-> L.steps, subs |-> L.subs,
                       pre |-> L.pre, post |-> Snap(S)]]

\* The call of task t has carried out a step, on session object o where the step
\* concerns one.
Did(S, t, step, o) ==
    [S EXCEPT !.tloc[t].steps = Append(@, [step |-> step, obj |-> o])]

\* Mutation: a with block is not left before the callbacks are called.
HoldThrough(S, lk, o, what) ==
    LET locks == IF lk = "none" THEN {} ELSE {<<lk, o>>} IN
    [S EXCEPT !.guard.took = @ \cup locks,
              !.guard.bare = @ \/ (what = "registry" /\ lk # "registry"),
              !.guard.under = IF what = "callback" THEN @ \cup locks \cup S.guard.took
                              ELSE @]

\* `with <lk>: <what>`, or <what> alone for the lock "none". The locks are
\* threading.Lock objects: _sessions_lock ("registry") and
\* _lifecycle_handlers_lock ("lifecycle") of the client (o = None), and the
\* handler locks of session object o. what is "registry" (a read or write of
\* _sessions), "handlers" (a read or write of a handler collection) or
\* "callback" (a call of a callable the application supplied).
Hold(S, lk, o, what) ==
    LET locks == IF lk = "none" THEN {} ELSE {<<lk, o>>} IN
    [S EXCEPT !.guard.took = @ \cup locks,
              !.guard.bare = @ \/ (what = "registry" /\ lk # "registry"),
              !.guard.under = IF what = "callback" THEN @ \cup locks ELSE @]

\* JsonRpcClient.request on transport tr: the request goes out only on a running
\* transport; tr = None is an attribute error raised before anything is sent.
IsOpen(S, tr) == tr # None /\ S.transports[tr]

\* The task suspends at label until the awaited request is answered.
Await(S, t, label, method, tr) ==
    [S EXCEPT !.pc[t] = label, !.tloc[t].tr = tr, !.tloc[t].live = IsOpen(S, tr),
              !.tloc[t].sent = IF IsOpen(S, tr) THEN Append(@, method) ELSE @]

\* ------------------------------------------------------------ list objects
\* Python lists are objects: two names can hold the same list. A list nobody
\* holds any more is reclaimed.
FreeList == [items |-> <<>>, by |-> {}, used |-> FALSE]

Live(S) == ({S.cache} \cup {S.held[t] : t \in Tasks}) \ {None}

Collect(S) ==
    [S EXCEPT !.lists = [l \in ListIds |-> IF l \in Live(S) THEN S.lists[l]
                                                            ELSE FreeList]]

NewList(S) ==
    CHOOSE l \in ListIds \ Live(S) : \A k \in ListIds \ Live(S) : l <= k

\* ------------------------------------------------------------- start()
\* _connect_via_stdio / _connect_via_tcp on success: a new JsonRpcClient; the TCP
\* path also stores a SocketWrapper (-n) in _process, over whatever was there.
Attach(S, kind) ==
    LET n == Len(S.transports) + 1 IN
    [S EXCEPT !.transports = Append(@, TRUE), !.client = n,
              !.process = IF kind = "tcp" THEN 0 - n ELSE @]

\* create_session / resume_session from their second connection check on.
SessionRequest(S, t) ==
    IF S.client = None
    THEN Done(S, t, "raise")
    ELSE Await(S, t, "session_resp",
               IF S.tloc[t].op = "create" THEN "session.create" ELSE "session.resume",
               S.client)

\* start() returns or raises to its caller, which is the application or the
\* auto-starting create_session / resume_session.
AfterStart(S, t, ok) ==
    IF S.tloc[t].op = "start"
    THEN Done(S, t, IF ok THEN "ok" ELSE "raise")
    ELSE IF ok THEN SessionRequest(S, t) ELSE Done(S, t, "raise")

StartFailed(S, t) == AfterStart([S EXCEPT !.state = "error"], t, FALSE)

\* _verify_protocol_version up to the await of the ping request.
Ping(S, t) ==
    IF S.client = None
    THEN StartFailed(S, t)
    ELSE Await(S, t, "start_ping", "ping", S.client)

ConnectViaStdio(S, t) ==
    IF S.process = None THEN StartFailed(S, t) ELSE Ping(Attach(S, "stdio"), t)

ConnectViaTcp(S, t, connOk) ==
    IF ~S.portKnown \/ ~connOk
    THEN StartFailed(S, t)
    ELSE Ping(Attach(S, "tcp"), t)

ConnectToServer(S, t, connOk) ==
    IF S.opts.stdio THEN ConnectViaStdio(S, t) ELSE ConnectViaTcp(S, t, connOk)

\* subprocess.Popen in _start_cli_server.
Spawn(S) ==
    [S EXCEPT !.procs = Append(@, [alive |-> TRUE, term |-> 0, kill |-> 0]),
              !.process = Len(S.procs) + 1]

\* _start_cli_server up to its first await: spawnOk is whether the CLI binary
\* exists and could be spawned.
StartCliServer(S, t, spawnOk, connOk) ==
    IF ~spawnOk
    THEN StartFailed(S, t)
    ELSE IF S.opts.stdio
         THEN ConnectToServer(Spawn(S), t, connOk)
         ELSE [Spawn(S) EXCEPT !.pc[t] = "start_port"]

\* Mutation: start() spawns a process also when an external server was given.
StartBodySpawning(S, t, spawnOk, connOk) ==
    IF S.state = "connected"
    THEN AfterStart(S, t, TRUE)
    ELSE StartCliServer([S EXCEPT !.state = "connecting"], t, spawnOk, connOk)

\* Mutation: start() has no early return for a connected client.
StartBodyAgain(S, t, spawnOk, connOk) ==
    LET S1 == [S EXCEPT !.state = "connecting"] IN
    IF ~S.opts.external
    THEN StartCliServer(S1, t, spawnOk, connOk)
    ELSE ConnectToServer(S1, t, connOk)

\* start() from its first line to its first await.
StartBody(S, t, spawnOk, connOk) ==
    IF S.state = "connected"
    THEN AfterStart(S, t, TRUE)
    ELSE LET S1 == [S EXCEPT !.state = "connecting"] IN
         IF ~S.opts.external
         THEN StartCliServer(S1, t, spawnOk, connOk)
         ELSE ConnectToServer(S1, t, connOk)

\* TCP mode: read_port ended. announced = the port line was read in time.
\* read_port is the coroutine start() waits for with asyncio.wait_for, which
\* may run it as a task of its own: it stores _actual_port and returns, and
\* start() is resumed by a later callback of the event loop. A timeout or an
\* exception of read_port changes nothing before start() is resumed.
StartPortBody(S, t, announced) ==
    IF ~announced
    THEN StartFailed(S, t)
    ELSE [S EXCEPT !.portKnown = TRUE, !.pc[t] = "start_conn"]

\* The ping request ended: "match", "mismatch", "missing" (no protocolVersion
\* in the reply) or "fail" (the request raised).
StartPingBody(S, t, reply) ==
    LET S1 == [S EXCEPT !.tloc[t].reply = reply] IN
    IF reply = "match"
    THEN AfterStart([S1 EXCEPT !.state = "connected"], t, TRUE)
    ELSE StartFailed(S1, t)

\* -------------------------------------------------------------- stop()
\* CopilotSession.destroy after its request succeeded: the remote has dropped
\* the session, and the handlers are cleared.
DestroyDone(S, o) ==
    [Hold(Hold(Hold(S, "events", o, "handlers"), "tools", o, "handlers"),
          "permission", o, "handlers") EXCEPT !.remote = @ \ {S.objs[o].sid},
              !.objs[o].gone = TRUE,
              !.objs[o].events = {},
              !.objs[o].tools = [n \in DOMAIN @ |-> "none"],
              !.objs[o].perm = "none"]

\* terminate(), wait(timeout=5) and, when the wait times out, kill().
Terminate(S, timedOut) ==
    IF S.process # None /\ ~S.opts.external
    THEN LET p == S.process
             kind == IF p > 0 THEN "popen" ELSE "socket"
             k == p > 0 /\ timedOut
         IN [S EXCEPT !.procs = IF p > 0
                                THEN [@ EXCEPT ![p] = [alive |-> FALSE,
                                                        term |-> @.term + 1,
                                                        kill |-> @.kill + (IF k THEN 1 ELSE 0)]]
                                ELSE @,
                      !.signals = @ \cup {<<kind, "terminate">>}
                                    \cup (IF k THEN {<<kind, "kill">>} ELSE {}),
                      !.process = None]
    ELSE S

\* Mutation: the state is set before the cache is cleared and the process is
\* terminated.
StopFinishStateFirst(S, t, timedOut) ==
    LET S0 == Did([S EXCEPT !.state = "disconnected"], t, "state", None)
        S1 == Did(Collect([S0 EXCEPT !.cache = None]), t, "cache", None)
        S2 == IF S1.process # None /\ ~S1.opts.external
              THEN Did(Terminate(S1, timedOut), t, "terminate", None)
              ELSE S1
    IN Done([S2 EXCEPT !.portKnown = IF S.opts.external THEN @ ELSE FALSE], t, "ok")

\* stop() from the cache clear (lock held) to its return.
StopFinish(S, t, timedOut) ==
    LET S1 == Did(Collect([S EXCEPT !.cache = None]), t, "cache", None)
        S2 == IF S1.process # None /\ ~S1.opts.external
              THEN Did(Terminate(S1, timedOut), t, "terminate", None)
              ELSE S1
    IN Done(Did([S2 EXCEPT !.state = "disconnected",
                           !.portKnown = IF S.opts.external THEN @ ELSE FALSE],
                t, "state", None), t, "ok")

\* async with self._models_cache_lock: asyncio.Lock is FIFO, and taken without
\* suspending only when it is free and nobody waits.
StopLock(S, t, timedOut) ==
    IF S.lock = "free" /\ S.waiters = <<>>
    THEN StopFinish(S, t, timedOut)
    ELSE [S EXCEPT !.waiters = Append(@, t), !.pc[t] = "stop_lock"]

\* if self._client: await self._client.stop()
StopClose(S, t, timedOut) ==
    IF S.client # None
    THEN [S EXCEPT !.pc[t] = "stop_close", !.tloc[t].tr = S.client]
    ELSE StopLock(S, t, timedOut)

\* The for loop over sessions_to_destroy, up to the next awaited destroy request.
\* A session whose _client is None raises at once, which the loop records.
RECURSIVE StopLoop(_, _, _)
StopLoop(S, t, timedOut) ==
    LET L == S.tloc[t] IN
    IF Len(L.tried) = Len(L.taken)
    THEN StopClose(S, t, timedOut)
    ELSE LET o == L.taken[Len(L.tried) + 1]
             S1 == Did([S EXCEPT !.tloc[t].tried = Append(@, o)], t, "destroy", o)
         IN IF S.objs[o].tr = None
            THEN StopLoop([S1 EXCEPT !.tloc[t].errs = Append(@, o)], t, timedOut)
            ELSE Await(S1, t, "stop_destroy", "session.destroy", S.objs[o].tr)

\* stop() from its first line: take the registry, empty it, start destroying.
StopBody(S, t, timedOut) ==
    StopLoop(Did([Hold(Begin(S, t, "stop"), "registry", None, "registry") EXCEPT
                     !.tloc[t].taken = [i \in 1..Len(S.sessions) |-> S.sessions[i].obj],
                     !.sessions = <<>>], t, "registry", None), t, timedOut)

\* A destroy request of the loop ended; ok = the remote answered without error.
StopDestroyBody(S, t, ok, timedOut) ==
    LET L == S.tloc[t]
        o == L.tried[Len(L.tried)]
    IN StopLoop(IF ok THEN DestroyDone(S, o)
                ELSE [S EXCEPT !.tloc[t].errs = Append(@, o)], t, timedOut)

\* self._client.stop() ended: on success the reference is dropped, on failure the
\* exception leaves stop().
StopCloseBody(S, t, ok, timedOut) ==
    IF ok
    THEN StopLock(Did([S EXCEPT !.transports[S.tloc[t].tr] = FALSE,
                                !.client = None], t, "close", None),
                  t, timedOut)
    ELSE Done(S, t, "raise")

\* The queued stop() gets the lock.
StopLockBody(S, t, timedOut) ==
    StopFinish([S EXCEPT !.waiters = Tail(@)], t, timedOut)

\* --------------------------------------------------------- force_stop()
Kill(S) ==
    IF S.process # None /\ ~S.opts.external
    THEN LET p == S.process
             kind == IF p > 0 THEN "popen" ELSE "socket"
         IN [S EXCEPT !.procs = IF p > 0
                                THEN [@ EXCEPT ![p] = [alive |-> FALSE,
                                                        term |-> @.term,
                                                        kill |-> @.kill + 1]]
                                ELSE @,
                      !.signals = @ \cup {<<kind, "kill">>},
                      !.process = None]
    ELSE S

ForceStopFinish(S, t) ==
    LET S1 == Kill(Collect([S EXCEPT !.cache = None])) IN
    Done([S1 EXCEPT !.state = "disconnected",
                    !.portKnown = IF S.opts.external THEN @ ELSE FALSE], t, "ok")

ForceStopLock(S, t) ==
    IF S.lock = "free" /\ S.waiters = <<>>
    THEN ForceStopFinish(S, t)
    ELSE [S EXCEPT !.waiters = Append(@, t), !.pc[t] = "fstop_lock"]

ForceStopBody(S, t) ==
    LET S1 == [Hold(Begin(S, t, "force_stop"), "registry", None, "registry")
                  EXCEPT !.sessions = <<>>] IN
    IF S.client # None
    THEN [S1 EXCEPT !.pc[t] = "fstop_close", !.tloc[t].tr = S.client]
    ELSE ForceStopLock(S1, t)

\* self._client.stop() ended, with or without an exception: both are ignored.
ForceStopCloseBody(S, t, ok) ==
    ForceStopLock([S EXCEPT !.transports[S.tloc[t].tr] = IF ok THEN FALSE ELSE @,
                            !.client = None], t)

ForceStopLockBody(S, t) ==
    ForceStopFinish([S EXCEPT !.waiters = Tail(@)], t)

\* ------------------------------------------------- sessions and handlers
ToolNames == {"grep", "edit"}
ConfigIds == {"c0", "c1", "c2"}
\* The hookType values CopilotSession._handle_hooks_invoke has an entry for.
HookTypes == {"preToolUse", "postToolUse", "userPromptSubmitted", "sessionStart",
              "sessionEnd", "errorOccurred"}

\* SessionConfig / ResumeSessionConfig values the application passes: the tools
\* (name, handler), the permission and user-input callbacks, and the hooks: no
\* hooks (None, or a dict from on_... key, written as its hook type, to
\* callback; "none" for a key the dict does not have).
Config(c) ==
    CASE c = "c1" ->
           [tools |-> <<[name |-> "grep", handler |-> "tOk"],
                        [name |-> "edit", handler |-> "tRaiseA"]>>,
            perm |-> "pApprove", uinput |-> "uOk",
            hooks |-> [given |-> TRUE,
                       dict |-> [T \in HookTypes |->
                                    CASE T = "preToolUse" -> "hOk"
                                      [] T = "postToolUse" -> "hRaise"
                                      [] T = "sessionEnd" -> "hNone"
                                      [] OTHER -> "none"]]]
      [] c = "c2" ->
           [tools |-> <<[name |-> "grep", handler |-> "tRaiseB"],
                        [name |-> "edit", handler |-> "tNone"],
                        [name |-> "grep", handler |-> "none"]>>,
            perm |-> "pRaise", uinput |-> "uRaise",
            hooks |-> [given |-> TRUE, dict |-> [T \in HookTypes |-> "none"]]]
      [] OTHER ->
           [tools |-> <<>>, perm |-> "none", uinput |-> "none",
            hooks |-> [given |-> FALSE, dict |-> [T \in HookTypes |-> "none"]]]

\* CopilotSession._register_tools: the table is cleared, then filled in order; a
\* tool without a name or without a handler is skipped.
RECURSIVE RegisterFrom(_, _, _)
RegisterFrom(table, tools, i) ==
    IF i > Len(tools)
    THEN table
    ELSE IF tools[i].name = "" \/ tools[i].handler = "none"
         THEN RegisterFrom(table, tools, i + 1)
         ELSE RegisterFrom([table EXCEPT ![tools[i].name] = tools[i].handler],
                           tools, i + 1)

RegisterTools(tools) == RegisterFrom([n \in ToolNames |-> "none"], tools, 1)

\* CopilotSession(session_id, self._client, ...) and the _register_* calls that
\* follow it in create_session / resume_session; `if hooks:` leaves an empty
\* dict of hooks unregistered. gone = a destroy() of the object has succeeded.
NewSession(S, t, sid, c) ==
    [sid |-> sid, tr |-> S.client, made |-> S.tloc[t].op = "create",
     gone |-> FALSE, events |-> {},
     tools |-> RegisterTools(Config(c).tools), perm |-> Config(c).perm,
     uinput |-> Config(c).uinput,
     hooks |-> IF \E T \in HookTypes : Config(c).hooks.dict[T] # "none"
               THEN Config(c).hooks
               ELSE [given |-> FALSE, dict |-> [T \in HookTypes |-> "none"]]]

\* dict operations on _sessions (a sequence of [sid, obj] in insertion order).
Lookup(reg, sid) ==
    IF \E i \in 1..Len(reg) : reg[i].sid = sid
    THEN reg[CHOOSE i \in 1..Len(reg) : reg[i].sid = sid].obj
    ELSE None

\* Mutation: an entry is added without looking for one under the same key.
PutAppending(reg, sid, o) == Append(reg, [sid |-> sid, obj |-> o])

Put(reg, sid, o) ==
    IF \E i \in 1..Len(reg) : reg[i].sid = sid
    THEN [i \in 1..Len(reg) |-> IF reg[i].sid = sid THEN [sid |-> sid, obj |-> o]
                                                    ELSE reg[i]]
    ELSE Append(reg, [sid |-> sid, obj |-> o])

Del(reg, sid) == SelectSeq(reg, LAMBDA e : e.sid # sid)

\* Mutation: the auto_start option is not looked at.
SessionBodyAlwaysStarting(S, t, op, sid, c, spawnOk, connOk) ==
    LET S1 == [Begin(S, t, op) EXCEPT !.tloc[t].sid = sid, !.tloc[t].conf = c] IN
    IF S.client = None
    THEN StartBody(S1, t, spawnOk, connOk)
    ELSE SessionRequest(S1, t)

\* create_session / resume_session from the first line to the first await.
SessionBody(S, t, op, sid, c, spawnOk, connOk) ==
    LET S1 == [Begin(S, t, op) EXCEPT !.tloc[t].sid = sid, !.tloc[t].conf = c] IN
    IF S.client = None
    THEN IF S.opts.autoStart
         THEN StartBody(S1, t, spawnOk, connOk)
         ELSE Done(S1, t, "raise")
    ELSE SessionRequest(S1, t)

\* The session.create / session.resume request ended; rid is the session id of
\* the reply.
SessionRespBody(S, t, ok, rid) ==
    IF ~ok
    THEN Done(S, t, "raise")
    ELSE LET n == Len(S.objs) + 1 IN
         Done([Hold(S, "registry", None, "registry") EXCEPT
                        !.objs = Append(@, NewSession(S, t, rid, S.tloc[t].conf)),
                        !.remote = @ \cup {rid},
                        !.sessions = Put(@, rid, n),
                        !.tloc[t].obj = n, !.tloc[t].sid = rid], t, "ok")

\* delete_session up to its await, and after it. reply: "ok", "refused" (an
\* answer with success false) or "fail" (the request raised).
DeleteBody(S, t, sid) ==
    LET S1 == [Begin(S, t, "delete") EXCEPT !.tloc[t].sid = sid] IN
    IF S.client = None
    THEN Done(S1, t, "raise")
    ELSE Await(S1, t, "delete_resp", "session.delete", S.client)

\* Mutation: the success field of the delete reply is not looked at.
DeleteRespBodyUnchecked(S, t, reply) ==
    LET S1 == [S EXCEPT !.tloc[t].reply = reply] IN
    IF reply # "fail"
    THEN Done([Hold(S1, "registry", None, "registry") EXCEPT
                        !.sessions = Del(@, S.tloc[t].sid),
                        !.remote = @ \ {S.tloc[t].sid}], t, "ok")
    ELSE Done(S1, t, "raise")

DeleteRespBody(S, t, reply) ==
    LET S1 == [S EXCEPT !.tloc[t].reply = reply] IN
    IF reply = "ok"
    THEN Done([Hold(S1, "registry", None, "registry") EXCEPT
                        !.sessions = Del(@, S.tloc[t].sid),
                        !.remote = @ \ {S.tloc[t].sid}], t, "ok")
    ELSE Done(S1, t, "raise")

\* CopilotSession.destroy called by the application on session object o.
DestroyBody(S, t, o) ==
    LET S1 == [Begin(S, t, "destroy") EXCEPT !.tloc[t].obj = o,
                                             !.tloc[t].sid = S.objs[o].sid] IN
    IF S.objs[o].tr = None
    THEN Done(S1, t, "raise")
    ELSE Await(S1, t, "destroy_resp", "session.destroy", S.objs[o].tr)

\* Mutation: destroy() forgets to clear the tool handlers.
DestroyRespBodyKeepingTools(S, t, ok) ==
    IF ok
    THEN Done([DestroyDone(S, S.tloc[t].obj) EXCEPT
                  !.objs[S.tloc[t].obj].tools = S.objs[S.tloc[t].obj].tools],
              t, "ok")
    ELSE Done(S, t, "raise")

\* The session.destroy request ended. had = which of its three handler
\* collections the session still had filled at that moment.
DestroyRespBody(S, t, ok) ==
    LET o == S.tloc[t].obj
        had == (IF S.objs[o].events # {} THEN {"events"} ELSE {})
               \cup (IF \E n \in ToolNames : S.objs[o].tools[n] # "none"
                     THEN {"tools"} ELSE {})
               \cup (IF S.objs[o].perm # "none" THEN {"perm"} ELSE {})
        S1 == [S EXCEPT !.tloc[t].had = had]
    IN IF ok THEN Done(DestroyDone(S1, o), t, "ok") ELSE Done(S1, t, "raise")

\* CopilotSession.get_messages on session object o up to its await.
GetMessagesBody(S, t, o) ==
    LET S1 == [Begin(S, t, "get_messages") EXCEPT !.tloc[t].obj = o,
                                                  !.tloc[t].sid = S.objs[o].sid] IN
    IF S.objs[o].tr = None
    THEN Done(S1, t, "raise")
    ELSE Await(S1, t, "messages_resp", "session.getMessages", S.objs[o].tr)

\* Mutation: a remote error is swallowed and an empty history returned.
GetMessagesRespBodySwallowing(S, t, reply) ==
    Done([S EXCEPT !.tloc[t].reply = reply], t,
         IF reply \in {"ok", "notfound"} THEN "ok" ELSE "raise")

\* The session.getMessages request ended: "ok" (the reply carries the events),
\* "notfound" (the remote answered with its 'Session not found' error) or
\* "fail" (the request raised for another reason).
GetMessagesRespBody(S, t, reply) ==
    Done([S EXCEPT !.tloc[t].reply = reply], t, IF reply = "ok" THEN "ok" ELSE "raise")

\* CopilotSession.on (set.add) and the unsubscribe function it returns
\* (set.discard, which leaves a set without h as it is). Both run inside
\* `with self._event_handlers_lock`, where nothing but the set is touched.
On(S, o, h) ==
    [S EXCEPT !.objs[o].events = @ \cup {h},
              !.log.at[h] = IF S.opts.trace /\ S.objs[o].sid = IdSeq[1]
                               /\ h \notin S.objs[o].events
                            THEN S.log.n ELSE @]

Unsubscribe(S, o, h) ==
    IF S.objs[o].sid = IdSeq[1]
    THEN [S EXCEPT !.objs[o].events = @ \ {h},
                   !.log.at[h] = 0 - 1, !.log.got[h] = <<>>]
    ELSE [S EXCEPT !.objs[o].events = @ \ {h}]

\* ---------------------------------------------------------- send_and_wait
\* The subscriber a send_and_wait call registers is the closure `handler` it
\* defines, a new callable in every call: the one of task t's call is written t.
\* subs is the subscriber set the call found.
\* Mutation: the finally clause is missing.
SendAndWaitExitLeaking(S, t, out) == Done(S, t, out)

\* finally: unsubscribe(), then the return or the exception.
SendAndWaitExit(S, t, out) == Done(Unsubscribe(S, S.tloc[t].obj, t), t, out)

\* send_and_wait on session object o up to the await of session.send.
SendAndWaitBody(S, t, o) ==
    LET S1 == [Begin(S, t, "send_and_wait") EXCEPT
                  !.tloc[t].obj = o, !.tloc[t].sid = S.objs[o].sid,
                  !.tloc[t].subs = S.objs[o].events]
        S2 == On(S1, o, t)
    IN IF S.objs[o].tr = None
       THEN SendAndWaitExit(S2, t, "raise")
       ELSE Await(S2, t, "send_resp", "session.send", S.objs[o].tr)

\* The session.send request ended; after a reply the call waits for idle_event.
SendRespBody(S, t, ok) ==
    IF ok
    THEN [S EXCEPT !.pc[t] = "wait_idle"]
    ELSE SendAndWaitExit([S EXCEPT !.tloc[t].reply = "fail"], t, "raise")

\* asyncio.wait_for(idle_event.wait(), timeout) ended: by the timeout, or with
\* the event set by session.idle or session.error.
WaitBody(S, t, timedOut) ==
    IF timedOut
    THEN SendAndWaitExit([S EXCEPT !.tloc[t].reply = "timeout"], t, "raise")
    ELSE IF S.tloc[t].failed
         THEN SendAndWaitExit([S EXCEPT !.tloc[t].reply = "error"], t, "raise")
         ELSE SendAndWaitExit([S EXCEPT !.tloc[t].reply = "idle"], t, "ok")

\* ----------------------------------------------------------- list_models
NoMeter == [reqs |-> "0", failed |-> FALSE]

ModelsData == <<"m1", "m2">>

Release(S) == [S EXCEPT !.lock = "free"]

\* Mutation: the list object itself is returned instead of a copy.
ReturnAlias(S, t, src) ==
    Done(Collect([S EXCEPT !.held[t] = src]), t, "ok")

\* return list(src): a new list object with the elements of src.
ReturnCopy(S, t, src) ==
    LET S0 == Collect([S EXCEPT !.held[t] = None])
        l == NewList(S0)
    IN Done([S0 EXCEPT !.lists[l] = [items |-> S.lists[src].items, by |-> {},
                                     used |-> TRUE],
                       !.held[t] = l], t, "ok")

\* list_models inside the lock, up to the await of the request.
ListLocked(S, t) ==
    IF S.cache # None
    THEN ReturnCopy(Release(S), t, S.cache)
    ELSE IF S.client = None
         THEN Done(Release(S), t, "raise")
         ELSE Await([S EXCEPT !.meter.reqs = IF @ = "0" THEN "1" ELSE "many"], t,
                    "models_resp", "models.list", S.client)

\* Mutation: list_models does not take the lock before it looks at the cache.
ListBodyUnlocked(S, t) ==
    LET S1 == Begin(S, t, "list_models") IN
    IF S.client = None
    THEN Done(S1, t, "raise")
    ELSE ListLocked(S1, t)

\* list_models from its first line to its first await.
ListBody(S, t) ==
    LET S1 == Begin(S, t, "list_models") IN
    IF S.client = None
    THEN Done(S1, t, "raise")
    ELSE IF S.lock = "free" /\ S.waiters = <<>>
         THEN ListLocked([S1 EXCEPT !.lock = t], t)
         ELSE [S1 EXCEPT !.waiters = Append(@, t), !.pc[t] = "list_lock",
                         !.tloc[t].waited = TRUE]

ListLockBody(S, t) == ListLocked([S EXCEPT !.waiters = Tail(@), !.lock = t], t)

\* The models.list request ended inside the lock.
ModelsRespBody(S, t, ok) ==
    IF ~ok
    THEN Done(Release([S EXCEPT !.meter.failed = TRUE]), t, "raise")
    ELSE LET n == NewList(S) IN
         ReturnCopy(Release([S EXCEPT !.lists[n] = [items |-> ModelsData,
                                                    by |-> {}, used |-> TRUE],
                                      !.cache = n,
                                      !.meter = NoMeter]), t, n)

\* Task t adds x to (x # "") or removes the last element of (x = "") the list
\* its last list_models call returned; by records who changed a list object.
MutateList(S, t, x) ==
    LET l == S.held[t] IN
    [S EXCEPT !.lists[l].items = IF x = "" THEN SubSeq(@, 1, Len(@) - 1)
                                           ELSE Append(@, x),
              !.lists[l].by = @ \cup {t}]

\* ------------------------------------------------ inbound request router
\* Callables the application subscribes with session.on and client.on; those
\* of EvRaises raise an Exception when they are called.
EvHandlers == {"ea", "eb"}
EvRaises == {"eb"}
\* SessionLifecycleEventType values that occur.
LcTypes == {"session.created", "session.deleted"}

DeniedNoRule == "denied-no-approval-rule-and-could-not-request-from-user"

\* ToolResult(textResultForLlm=..., resultType=..., error=..., toolTelemetry={}).
\* Texts are sequences of pieces, so that "contains" can be asked of them.
ToolResult(text, rtype, error) ==
    [kind |-> "tool", text |-> text, rtype |-> rtype, error |-> error, dc |-> FALSE]

Contains(text, piece) == \E i \in 1..Len(text) : text[i] = piece

\* What the application's tool handlers do when called: raise an exception with
\* a message, return nothing, or return a result.
ToolBehave(h) ==
    CASE h = "tRaiseA" -> [raises |-> TRUE, msg |-> "boomA", value |-> PyNone]
      [] h = "tRaiseB" -> [raises |-> TRUE, msg |-> "boomB", value |-> PyNone]
      [] h = "tNone" -> [raises |-> FALSE, msg |-> "", value |-> PyNone]
      [] OTHER -> [raises |-> FALSE, msg |-> "",
                   value |-> [kind |-> "tool", text |-> <<"2 matches">>,
                              rtype |-> "success", error |-> <<>>, dc |-> TRUE]]

\* What the application's permission handlers do when called.
PermBehave(h) ==
    CASE h = "pRaise" -> [raises |-> TRUE, value |-> PyNone]
      [] h = "pDeny" -> [raises |-> FALSE,
                         value |-> [NoResult EXCEPT !.kind = "denied-interactively-by-user"]]
      [] OTHER -> [raises |-> FALSE, value |-> [NoResult EXCEPT !.kind = "approved"]]

\* _normalize_tool_result: a dataclass instance becomes a dict.
NormalizeToolResult(r) == IF r.dc THEN [r EXCEPT !.dc = FALSE] ELSE r

\* Mutation: the failure result does not say which tool was asked for.
BuildUnsupportedToolResultAnon(name) ==
    ToolResult(<<"Tool is not supported.">>, "failure", <<"tool not supported">>)

\* _build_unsupported_tool_result
BuildUnsupportedToolResult(name) ==
    ToolResult(<<"Tool '", name, "' is not supported.">>, "failure",
               <<"tool '", name, "' not supported">>)

ToolErrorText ==
    <<"Invoking this tool produced an error. Detailed information is not available.">>

\* Mutation: the exception message is put into the text given to the caller.
ExecuteToolCallLeaky(h) ==
    LET b == ToolBehave(h)
        r1 == IF b.raises
              THEN ToolResult(<<"Invoking this tool produced an error: ", b.msg>>,
                              "failure", <<b.msg>>)
              ELSE b.value
        r2 == IF r1 = PyNone
              THEN ToolResult(<<"Tool returned no result.">>, "failure",
                              <<"tool returned no result">>)
              ELSE r1
    IN NormalizeToolResult(r2)

\* _execute_tool_call: the handler is called; an exception and a None result
\* become failure results.
ExecuteToolCall(h) ==
    LET b == ToolBehave(h)
        r1 == IF b.raises THEN ToolResult(ToolErrorText, "failure", <<b.msg>>)
              ELSE b.value
        r2 == IF r1 = PyNone
              THEN ToolResult(<<"Tool returned no result.">>, "failure",
                              <<"tool returned no result">>)
              ELSE r1
    IN NormalizeToolResult(r2)

Reply(S, method, p, result, calls) ==
    [S EXCEPT !.last = [method |-> method, sid |-> p.sid, call |-> p.call,
                        name |-> p.name, out |-> "result", err |-> "none",
                        result |-> result, calls |-> calls, ran |-> calls]]

\* The request is answered with an error; calls are the callbacks that were
\* called for it.
Reject(S, method, p, err, calls) ==
    [S EXCEPT !.last = [method |-> method, sid |-> p.sid, call |-> p.call,
                        name |-> p.name, out |-> "error", err |-> err,
                        result |-> NoResult, calls |-> calls, ran |-> calls]]

\* result = handler(...); if inspect.isawaitable(result): result = await result
\* where S is the state after a request was handled up to its reply. A callback
\* that is a plain function, or a coroutine function that does not wait, has
\* ended (waits = FALSE). With one that waits, the callback has been called
\* and the request's task is suspended: what S.last says the request is
\* answered with is what it will be answered with when the callback ends,
\* since nothing is read after the await but the callback's outcome.
AwaitResult(S, waits) ==
    IF ~waits
    THEN S
    ELSE [S EXCEPT !.pending = @ (+) SetToBag({[S.last EXCEPT !.calls = <<>>]}),
                   !.last = [S.last EXCEPT !.out = "pending", !.err = "none",
                                           !.result = NoResult]]

\* CopilotSession._get_tool_handler
GetToolHandler(S, o, name) ==
    IF name \in DOMAIN S.objs[o].tools THEN S.objs[o].tools[name] ELSE "none"

\* CopilotClient._handle_tool_call_request; p = [sid, call, name], "none" for a
\* field that is missing or empty.
HandleToolCall(S, p) ==
    IF p.sid = "none" \/ p.call = "none" \/ p.name = "none"
    THEN Reject(S, "tool.call", p, "invalid payload", <<>>)
    ELSE LET S1 == Hold(S, "registry", None, "registry")
             o == Lookup(S.sessions, p.sid)
         IN
         IF o = None
         THEN Reject(S1, "tool.call", p, "unknown session", <<>>)
         ELSE LET S2 == Hold(S1, "tools", o, "handlers")
                  h == GetToolHandler(S, o, p.name)
              IN
              IF h = "none"
              THEN Reply(S2, "tool.call", p, BuildUnsupportedToolResult(p.name), <<>>)
              ELSE Reply(Hold(S2, "none", None, "callback"), "tool.call", p,
                         ExecuteToolCall(h),
                         <<[obj |-> o, kind |-> "tool", h |-> h]>>)

\* Mutation: a permission request that cannot be decided is let through.
SessionPermissionOpen(S, o) ==
    LET h == S.objs[o].perm IN
    IF h = "none"
    THEN [result |-> [NoResult EXCEPT !.kind = "approved"], calls |-> <<>>]
    ELSE [result |-> IF PermBehave(h).raises
                     THEN [NoResult EXCEPT !.kind = "approved"]
                     ELSE PermBehave(h).value,
          calls |-> <<[obj |-> o, kind |-> "permission", h |-> h]>>]

\* CopilotSession._handle_permission_request: the result and whether the
\* handler was called.
SessionPermission(S, o) ==
    LET h == S.objs[o].perm IN
    IF h = "none"
    THEN [result |-> [NoResult EXCEPT !.kind = DeniedNoRule], calls |-> <<>>]
    ELSE [result |-> IF PermBehave(h).raises
                     THEN [NoResult EXCEPT !.kind = DeniedNoRule]
                     ELSE PermBehave(h).value,
          calls |-> <<[obj |-> o, kind |-> "permission", h |-> h]>>]

\* CopilotClient._handle_permission_request; p = [sid, name], name standing for
\* the permissionRequest ("none" when missing or empty).
HandlePermission(S, p) ==
    IF p.sid = "none" \/ p.name = "none"
    THEN Reject(S, "permission.request", p, "invalid payload", <<>>)
    ELSE LET S1 == Hold(S, "registry", None, "registry")
             o == Lookup(S.sessions, p.sid)
         IN
         IF o = None
         THEN Reject(S1, "permission.request", p, "unknown session", <<>>)
         ELSE LET r == SessionPermission(S, o)
                  S2 == Hold(S1, "permission", o, "handlers")
              IN Reply(IF r.calls = <<>> THEN S2
                       ELSE Hold(S2, "none", None, "callback"),
                       "permission.request", p, r.result, r.calls)

\* What the application's user-input handlers and hooks do when called.
UserInputBehave(h) ==
    CASE h = "uRaise" -> [raises |-> TRUE, value |-> PyNone]
      [] OTHER -> [raises |-> FALSE,
                   value |-> [NoResult EXCEPT !.kind = "answer", !.text = <<"yes">>]]

HookBehave(h) ==
    CASE h = "hRaise" -> [raises |-> TRUE, value |-> PyNone]
      [] h = "hNone" -> [raises |-> FALSE, value |-> PyNone]
      [] OTHER -> [raises |-> FALSE, value |-> [NoResult EXCEPT !.kind = "output"]]

\* Mutation: a request nobody can answer gets an empty answer.
SessionUserInputDefault(S, o) ==
    LET h == S.objs[o].uinput
        empty == [NoResult EXCEPT !.kind = "answer"]
    IN IF h = "none"
       THEN [raised |-> FALSE, result |-> empty, calls |-> <<>>]
       ELSE [raised |-> FALSE,
             result |-> IF UserInputBehave(h).raises THEN empty
                        ELSE UserInputBehave(h).value,
             calls |-> <<[obj |-> o, kind |-> "user_input", h |-> h]>>]

\* CopilotSession._handle_user_input_request: no handler is a RuntimeError, and
\* an exception of the handler is raised again.
SessionUserInput(S, o) ==
    LET h == S.objs[o].uinput IN
    IF h = "none"
    THEN [raised |-> TRUE, result |-> NoResult, calls |-> <<>>]
    ELSE [raised |-> UserInputBehave(h).raises,
          result |-> UserInputBehave(h).value,
          calls |-> <<[obj |-> o, kind |-> "user_input", h |-> h]>>]

\* Mutation: the session is looked up before the payload is validated.
HandleUserInputLookupFirst(S, p) ==
    LET o == Lookup(S.sessions, p.sid) IN
    IF o = None
    THEN Reject(S, "userInput.request", p, "unknown session", <<>>)
    ELSE IF p.name = "none"
         THEN Reject(S, "userInput.request", p, "invalid payload", <<>>)
         ELSE Reply(S, "userInput.request", p, SessionUserInput(S, o).result,
                    SessionUserInput(S, o).calls)

\* CopilotClient._handle_user_input_request; p = [sid, name], name standing for
\* the question. The answer is taken out of the handler's result.
HandleUserInput(S, p) ==
    IF p.sid = "none" \/ p.name = "none"
    THEN Reject(S, "userInput.request", p, "invalid payload", <<>>)
    ELSE LET S1 == Hold(S, "registry", None, "registry")
             o == Lookup(S.sessions, p.sid)
         IN
         IF o = None
         THEN Reject(S1, "userInput.request", p, "unknown session", <<>>)
         ELSE LET r == SessionUserInput(S, o)
                  S2 == Hold(S1, "user_input", o, "handlers")
                  S3 == IF r.calls = <<>> THEN S2
                        ELSE Hold(S2, "none", None, "callback")
              IN
              IF r.raised
              THEN Reject(S3, "userInput.request", p,
                          IF r.calls = <<>> THEN "no handler" ELSE "handler",
                          r.calls)
              ELSE Reply(S3, "userInput.request", p, r.result, r.calls)

\* Mutation: an exception of a hook leaves _handle_hooks_invoke.
SessionHooksInvokeRaising(S, o, type) ==
    LET hooks == S.objs[o].hooks
        h == IF hooks.given /\ type \in HookTypes THEN hooks.dict[type] ELSE "none"
    IN IF h = "none"
       THEN [raised |-> FALSE, result |-> PyNone, calls |-> <<>>]
       ELSE [raised |-> HookBehave(h).raises, result |-> HookBehave(h).value,
             calls |-> <<[obj |-> o, kind |-> "hook", h |-> h]>>]

\* CopilotSession._handle_hooks_invoke: None without hooks, for a hook type
\* that is not in handler_map, for one without a handler, and when the handler
\* raises.
SessionHooksInvoke(S, o, type) ==
    LET hooks == S.objs[o].hooks IN
    IF ~hooks.given
    THEN [raised |-> FALSE, result |-> PyNone, calls |-> <<>>]
    ELSE LET h == IF type \in HookTypes THEN hooks.dict[type] ELSE "none"
         IN IF h = "none"
            THEN [raised |-> FALSE, result |-> PyNone, calls |-> <<>>]
            ELSE [raised |-> FALSE,
                  result |-> IF HookBehave(h).raises THEN PyNone
                             ELSE HookBehave(h).value,
                  calls |-> <<[obj |-> o, kind |-> "hook", h |-> h]>>]

\* CopilotClient._handle_hooks_invoke; p = [sid, name], name standing for the
\* hookType.
HandleHooksInvoke(S, p) ==
    IF p.sid = "none" \/ p.name = "none"
    THEN Reject(S, "hooks.invoke", p, "invalid payload", <<>>)
    ELSE LET S1 == Hold(S, "registry", None, "registry")
             o == Lookup(S.sessions, p.sid)
         IN
         IF o = None
         THEN Reject(S1, "hooks.invoke", p, "unknown session", <<>>)
         ELSE LET r == SessionHooksInvoke(S, o, p.name)
                  S2 == Hold(S1, "hooks", o, "handlers")
                  S3 == IF r.calls = <<>> THEN S2
                        ELSE Hold(S2, "none", None, "callback")
              IN
              IF r.raised
              THEN Reject(S3, "hooks.invoke", p, "handler", r.calls)
              ELSE Reply(S3, "hooks.invoke", p, r.result, r.calls)

\* for handler in handlers: try: handler(event) / except Exception: ...
\* An exception of a handler ends in the except clause (printed by the session,
\* dropped by the client) and the loop goes on with the next handler.
\* Mutation: the call is not guarded, the first exception leaves the loop.
RECURSIVE CallEachUnguarded(_, _, _)
CallEachUnguarded(handlers, o, kind) ==
    IF handlers = <<>>
    THEN [calls |-> <<>>, raised |-> FALSE]
    ELSE LET call == [obj |-> o, kind |-> kind, h |-> Head(handlers)]
             rest == CallEachUnguarded(Tail(handlers), o, kind)
         IN IF Head(handlers) \in EvRaises
            THEN [calls |-> <<call>>, raised |-> TRUE]
            ELSE [rest EXCEPT !.calls = <<call>> \o @]

RECURSIVE CallEach(_, _, _)
CallEach(handlers, o, kind) ==
    IF handlers = <<>>
    THEN [calls |-> <<>>, raised |-> FALSE]
    ELSE LET call == [obj |-> o, kind |-> kind, h |-> Head(handlers)]
             rest == CallEach(Tail(handlers), o, kind)
         IN [rest EXCEPT !.calls = <<call>> \o @]

\* Mutation: the loop returns after the first handler of the snapshot.
DispatchEventFirst(S, o, order) ==
    LET handlers == SelectSeq(order, LAMBDA h : h \in S.objs[o].events) IN
    CallEach(IF handlers = <<>> THEN <<>> ELSE <<Head(handlers)>>, o, "event")

\* CopilotSession._dispatch_event: a snapshot of the subscriber set is taken
\* under the lock, then every handler of it is called, in the order the set
\* happens to list them.
DispatchEvent(S, o, order) ==
    CallEach(SelectSeq(order, LAMBDA h : h \in S.objs[o].events), o, "event")

\* The history of deliveries: a notification for the first session id is the
\* next in arrival order, and each call of a handler adds its number to that
\* subscriber's record.
Logged(S, sid, calls) ==
    IF ~S.opts.trace \/ sid # IdSeq[1]
    THEN S
    ELSE LET n == S.log.n + 1 IN
         [S EXCEPT !.log.n = n,
                   !.log.got = [h \in DOMAIN @ |->
                       @[h] \o [i \in 1..Cardinality({j \in 1..Len(calls) :
                                                         calls[j].h = h}) |-> n]]]

\* Mutation: the event goes to the first session object constructed with that
\* id, registered or not.
HandleSessionEventStale(S, p, order) ==
    LET same == {o \in 1..Len(S.objs) : S.objs[o].sid = p.sid} IN
    IF same = {}
    THEN Reply(S, "session.event", p, NoResult, <<>>)
    ELSE Reply(S, "session.event", p, NoResult,
               DispatchEvent(S, CHOOSE o \in same : \A k \in same : o <= k,
                             order).calls)

\* handle_notification for session.event. The one _connect_via_stdio installs
\* looks the session up inside `with self._sessions_lock`, the one
\* _connect_via_tcp installs (socket mode and external servers) without it.
\* An exception that left _dispatch_event would leave the notification handler
\* too.
HandleSessionEvent(S, p, order) ==
    LET o == Lookup(S.sessions, p.sid)
        d == IF o = None THEN CallEach(<<>>, None, "event")
             ELSE DispatchEvent(S, o, order)
        S0 == Hold(S, IF S.opts.stdio THEN "registry" ELSE "none", None, "registry")
        S2 == IF o = None THEN S0 ELSE Hold(S0, "events", o, "handlers")
        S3 == IF d.calls = <<>> THEN S2 ELSE Hold(S2, "none", None, "callback")
        S1 == Logged(S3, p.sid, d.calls)
    IN IF d.raised
       THEN Reject(S1, "session.event", p, "handler", <<>>)
       ELSE Reply(S1, "session.event", p, NoResult, d.calls)

\* CopilotClient.on: on(handler) subscribes to every type ("*"),
\* on(event_type, handler) to one; both append to a list.
ClientOn(S, type, h) ==
    LET S0 == Hold(S, "lifecycle", None, "handlers")
        S1 == IF S.opts.trace
              THEN [S0 EXCEPT !.lifecycle.regs =
                                 Append(@, [type |-> type, h |-> h, on |-> TRUE])]
              ELSE S0
    IN
    IF type = "*"
    THEN [S1 EXCEPT !.lifecycle.wild = Append(@, h)]
    ELSE [S1 EXCEPT !.lifecycle.typed[type] = Append(@, h)]

\* Mutation: the unsubscribe function removes every entry equal to the handler.
ClientOffAll(S, i) ==
    LET r == S.lifecycle.regs[i]
        S1 == [S EXCEPT !.lifecycle.regs[i].on = FALSE]
    IN IF r.type = "*"
       THEN [S1 EXCEPT !.lifecycle.wild = SelectSeq(@, LAMBDA x : x # r.h)]
       ELSE [S1 EXCEPT !.lifecycle.typed[r.type] = SelectSeq(@, LAMBDA x : x # r.h)]

\* The unsubscribe function returned by the i-th call of client.on:
\* if handler in handlers: handlers.remove(handler), and list.remove takes out
\* the first entry equal to the handler.
ClientOff(S, i) ==
    LET r == S.lifecycle.regs[i]
        Remove(list) ==
            IF \E k \in 1..Len(list) : list[k] = r.h
            THEN LET k == CHOOSE k \in 1..Len(list) :
                              /\ list[k] = r.h
                              /\ \A j \in 1..(k - 1) : list[j] # r.h
                 IN SubSeq(list, 1, k - 1) \o SubSeq(list, k + 1, Len(list))
            ELSE list
        S1 == [Hold(S, "lifecycle", None, "handlers") EXCEPT
                  !.lifecycle.regs[i].on = FALSE]
    IN IF r.type = "*"
       THEN [S1 EXCEPT !.lifecycle.wild = Remove(@)]
       ELSE [S1 EXCEPT !.lifecycle.typed[r.type] = Remove(@)]

\* CopilotClient._dispatch_lifecycle_event: snapshots of the typed handlers of
\* the event's type and of the wildcard handlers, then one guarded loop over
\* each.
DispatchLifecycleEvent(S, type) ==
    CallEach((IF type \in LcTypes THEN S.lifecycle.typed[type] ELSE <<>>)
                \o S.lifecycle.wild, None, "lifecycle")

\* handle_notification for session.lifecycle; name stands for the event type.
HandleLifecycle(S, p) ==
    LET d == DispatchLifecycleEvent(S, p.name)
        S1 == Hold(S, "lifecycle", None, "handlers")
        S2 == IF d.calls = <<>> THEN S1 ELSE Hold(S1, "none", None, "callback")
    IN
    IF d.raised
    THEN Reject(S2, "session.lifecycle", p, "handler", <<>>)
    ELSE Reply(S2, "session.lifecycle", p, NoResult, d.calls)

\* handle_notification for a session.event of the given type while send_and_wait
\* calls may be waiting: where the closure of task t's call is among the
\* handlers called, it notes an assistant.message, and sets idle_event on
\* session.idle and on session.error (which it also keeps as error_event).
HandleWaitEvent(S, p, order) ==
    LET S1 == HandleSessionEvent(S, p, order)
        Called(t) == \E k \in 1..Len(S1.last.calls) : S1.last.calls[k].h = t
        Note(L) == CASE p.name = "assistant.message" -> [L EXCEPT !.msg = TRUE]
                     [] p.name = "session.idle" -> [L EXCEPT !.idle = TRUE]
                     [] p.name = "session.error" ->
                          [L EXCEPT !.failed = TRUE, !.idle = TRUE]
                     [] OTHER -> L
    IN [S1 EXCEPT !.tloc = [t \in Tasks |-> IF Called(t) THEN Note(@[t]) ELSE @[t]]]

\* The orders in which iterating a set can list its elements.
Orders(set) ==
    {q \in UNION {[1..n -> set] : n \in 0..Cardinality(set)} :
        /\ Len(q) = Cardinality(set)
        /\ \A i, j \in 1..Len(q) : i # j => q[i] # q[j]}

\* ================================================================ actions
Bounded(S) ==
    /\ Len(S.lifecycle.wild) + Len(S.lifecycle.typed["session.created"])
          + Len(S.lifecycle.typed["session.deleted"]) <= MaxSubs
    /\ Len(S.lifecycle.regs) <= MaxSubs
    /\ S.log.n <= MaxEvents
    /\ Len(S.transports) <= MaxStarts
    /\ Len(S.procs) <= MaxStarts
    /\ Len(S.objs) <= MaxObjs
    /\ BagCardinality(S.pending) <= MaxPending
    /\ \A l \in ListIds : Len(S.lists[l].items) <= MaxLen

Step(S) == Bounded(S) /\ Apply(S)

Idle(t) == t \in active /\ pc[t] = "idle"

\* A reply can only come for a request that went out on a running transport.
CanReply(t) == tloc[t].live

\* JsonRpcClient.stop() returns (TRUE) or raises (FALSE).
TransportStopOutcomes == BOOLEAN

\* Environment choices are offered only where the code looks at them.
SpawnChoices == IF opts.external \/ state = "connected" THEN {TRUE} ELSE BOOLEAN
ConnChoices == IF opts.stdio \/ state = "connected" THEN {TRUE} ELSE BOOLEAN
WaitChoices == IF process > 0 /\ ~opts.external THEN BOOLEAN ELSE {FALSE}

Start(t) ==
    /\ Idle(t)
    /\ \E spawnOk \in SpawnChoices, connOk \in ConnChoices :
          Step(StartBody(Begin(Cur, t, "start"), t, spawnOk, connOk))

StartPort(t) ==
    /\ pc[t] = "start_port"
    /\ \E announced \in BOOLEAN : Step(StartPortBody(Cur, t, announced))

\* start() is resumed after _start_cli_server and goes on with
\* _connect_to_server; the connection is attempted only with a port.
StartConn(t) ==
    /\ pc[t] = "start_conn"
    /\ \E connOk \in BOOLEAN :
          /\ ~portKnown => connOk
          /\ Step(ConnectToServer(Cur, t, connOk))

StartPing(t) ==
    /\ pc[t] = "start_ping"
    /\ \E reply \in {"match", "mismatch", "missing", "fail"} :
          /\ reply # "fail" => CanReply(t)
          /\ Step(StartPingBody(Cur, t, reply))

Stop(t) ==
    /\ Idle(t)
    /\ \E timedOut \in WaitChoices : Step(StopBody(Cur, t, timedOut))

StopDestroy(t) ==
    /\ pc[t] = "stop_destroy"
    /\ \E ok \in BOOLEAN, timedOut \in WaitChoices :
          /\ ok => CanReply(t)
          /\ Step(StopDestroyBody(Cur, t, ok, timedOut))

StopClosed(t) ==
    /\ pc[t] = "stop_close"
    /\ \E ok \in TransportStopOutcomes, timedOut \in WaitChoices :
          Step(StopCloseBody(Cur, t, ok, timedOut))

StopLocked(t) ==
    /\ pc[t] = "stop_lock" /\ lock = "free" /\ Head(waiters) = t
    /\ \E timedOut \in WaitChoices : Step(StopLockBody(Cur, t, timedOut))

ForceStop(t) == Idle(t) /\ Step(ForceStopBody(Cur, t))

ForceStopClosed(t) ==
    /\ pc[t] = "fstop_close"
    /\ \E ok \in TransportStopOutcomes : Step(ForceStopCloseBody(Cur, t, ok))

ForceStopLocked(t) ==
    /\ pc[t] = "fstop_lock" /\ lock = "free" /\ Head(waiters) = t
    /\ Step(ForceStopLockBody(Cur, t))

\* create_session / resume_session start the client only when none is attached.
AutoSpawnChoices == IF client # None \/ ~opts.autoStart THEN {TRUE} ELSE SpawnChoices
AutoConnChoices == IF client # None \/ ~opts.autoStart THEN {TRUE} ELSE ConnChoices

CreateSession(t) ==
    /\ Idle(t)
    /\ \E c \in opts.confs, spawnOk \in AutoSpawnChoices, connOk \in AutoConnChoices :
          Step(SessionBody(Cur, t, "create", "none", c, spawnOk, connOk))

ResumeSession(t) ==
    /\ Idle(t)
    /\ \E sid \in SessionIds, c \in opts.confs, spawnOk \in AutoSpawnChoices,
          connOk \in AutoConnChoices :
          Step(SessionBody(Cur, t, "resume", sid, c, spawnOk, connOk))

\* The session id of a session.create / session.resume reply: the remote gives
\* a created session a fresh id and echoes the id of a resumed one.
ReplyId(t) ==
    IF tloc[t].op = "resume" THEN tloc[t].sid
    ELSE LET n == Cardinality({o \in 1..Len(objs) : objs[o].made}) + 1 IN
         IF n <= Len(IdSeq) THEN IdSeq[n] ELSE "none"

SessionResp(t) ==
    /\ pc[t] = "session_resp"
    /\ \E ok \in BOOLEAN :
          /\ ok => CanReply(t)
          /\ Step(SessionRespBody(Cur, t, ok, ReplyId(t)))

DeleteSession(t) ==
    /\ Idle(t)
    /\ \E sid \in SessionIds : Step(DeleteBody(Cur, t, sid))

DeleteResp(t) ==
    /\ pc[t] = "delete_resp"
    /\ \E reply \in {"ok", "refused", "fail"} :
          /\ reply # "fail" => CanReply(t)
          /\ Step(DeleteRespBody(Cur, t, reply))

Destroy(t) ==
    /\ Idle(t)
    /\ \E o \in 1..Len(objs) : Step(DestroyBody(Cur, t, o))

DestroyResp(t) ==
    /\ pc[t] = "destroy_resp"
    /\ \E ok \in BOOLEAN :
          /\ ok => CanReply(t)
          /\ Step(DestroyRespBody(Cur, t, ok))

GetMessages(t) ==
    /\ Idle(t)
    /\ \E o \in 1..Len(objs) : Step(GetMessagesBody(Cur, t, o))

\* The remote answers for the session it has, and with 'not found' for one it
\* has not.
GetMessagesResp(t) ==
    /\ pc[t] = "messages_resp"
    /\ \E reply \in {"ok", "notfound", "fail"} :
          /\ reply # "fail" => CanReply(t)
          /\ reply = "ok" => tloc[t].sid \in remote
          /\ reply = "notfound" => tloc[t].sid \notin remote
          /\ Step(GetMessagesRespBody(Cur, t, reply))

Subscribe ==
    \E o \in 1..Len(objs), h \in EvHandlers : Step(On(Cur, o, h))

Unsub ==
    \E o \in 1..Len(objs), h \in EvHandlers : Step(Unsubscribe(Cur, o, h))

ListModels(t) == Idle(t) /\ Step(ListBody(Cur, t))

ListLockGranted(t) ==
    /\ pc[t] = "list_lock" /\ lock = "free" /\ Head(waiters) = t
    /\ Step(ListLockBody(Cur, t))

ModelsResp(t) ==
    /\ pc[t] = "models_resp"
    /\ \E ok \in BOOLEAN :
          /\ ok => CanReply(t)
          /\ Step(ModelsRespBody(Cur, t, ok))

Mutate(t) ==
    /\ Idle(t) /\ held[t] # None
    /\ \E x \in {"", "mx"} :
          /\ x = "" => lists[held[t]].items # <<>>
          /\ Step(MutateList(Cur, t, x))

\* Inbound traffic arrives while some transport of this client is running.
Receiving == \E i \in 1..Len(transports) : transports[i]

\* tool.call payloads: every session id with every tool name, and one payload
\* for each required field that can be missing or empty.
ToolPayloads ==
    [sid : SessionIds, call : {"call1"}, name : ToolNames \cup {"missing_tool"}]
    \cup {[sid |-> "none", call |-> "call1", name |-> "grep"],
          [sid |-> "s1", call |-> "none", name |-> "grep"],
          [sid |-> "s1", call |-> "call1", name |-> "none"]}

\* Only a request for which a callback was called can be suspended in it.
ToolCall ==
    /\ Receiving
    /\ \E p \in ToolPayloads, waits \in BOOLEAN :
          /\ waits => HandleToolCall(Cur, p).last.calls # <<>>
          /\ Step(AwaitResult(HandleToolCall(Cur, p), waits))

\* permission.request payloads; name stands for the permissionRequest and call
\* is not part of them.
PermissionPayloads ==
    [sid : SessionIds, call : {"none"}, name : {"write"}]
    \cup {[sid |-> "none", call |-> "none", name |-> "write"],
          [sid |-> "s1", call |-> "none", name |-> "none"]}

PermissionRequest ==
    /\ Receiving
    /\ \E p \in PermissionPayloads, waits \in BOOLEAN :
          /\ waits => HandlePermission(Cur, p).last.calls # <<>>
          /\ Step(AwaitResult(HandlePermission(Cur, p), waits))

\* userInput.request and hooks.invoke payloads: every session id, with hook
\* types that have a callback in some configuration, one that has none and
\* one that does not exist, and the payloads with a required field missing or
\* empty.
UserInputRequest ==
    /\ Receiving
    /\ \E p \in [sid : SessionIds \cup {"none"}, call : {"none"},
                 name : {"question", "none"}], waits \in BOOLEAN :
          /\ waits => HandleUserInput(Cur, p).last.calls # <<>>
          /\ Step(AwaitResult(HandleUserInput(Cur, p), waits))

HooksInvoke ==
    /\ Receiving
    /\ \E p \in [sid : SessionIds \cup {"none"}, call : {"none"},
                 name : {"preToolUse", "postToolUse", "sessionEnd",
                         "errorOccurred", "bogusHook", "none"}],
          waits \in BOOLEAN :
          /\ waits => HandleHooksInvoke(Cur, p).last.calls # <<>>
          /\ Step(AwaitResult(HandleHooksInvoke(Cur, p), waits))

\* The callback a suspended request awaits ends, whatever has happened to the
\* client and the session since it was called: the request's task runs to its
\* end and the reply r goes out.
ResultDone ==
    \E r \in BagToSet(pending) :
        Step([Cur EXCEPT !.pending = @ (-) SetToBag({r}), !.last = r])

LifecycleOn ==
    \E type \in LcTypes \cup {"*"}, h \in EvHandlers : Step(ClientOn(Cur, type, h))

LifecycleOff ==
    \E i \in 1..Len(lifecycle.regs) : Step(ClientOff(Cur, i))

LifecycleEvent ==
    /\ Receiving
    /\ \E type \in LcTypes :
          Step(HandleLifecycle(Cur, [sid |-> "s1", call |-> "none", name |-> type]))

SessionEvent ==
    /\ Receiving
    /\ \E sid \in SessionIds, order \in Orders(EvHandlers) :
          Step(HandleSessionEvent(Cur, [sid |-> sid, call |-> "none",
                                        name |-> "event"], order))

SendAndWait(t) ==
    /\ Idle(t)
    /\ \E o \in 1..Len(objs) : Step(SendAndWaitBody(Cur, t, o))

SendResp(t) ==
    /\ pc[t] = "send_resp"
    /\ \E ok \in BOOLEAN :
          /\ ok => CanReply(t)
          /\ Step(SendRespBody(Cur, t, ok))

\* The call is resumed with the event set, or by the timeout; the timeout can
\* also win after the event was set, while the task that waits for the event
\* has not been resumed yet.
WaitDone(t) ==
    /\ pc[t] = "wait_idle"
    /\ \E timedOut \in BOOLEAN :
          /\ ~timedOut => tloc[t].idle
          /\ Step(WaitBody(Cur, t, timedOut))

WaitEvent ==
    /\ Receiving
    /\ \E sid \in SessionIds, order \in Orders({"ea"} \cup active),
          type \in {"assistant.message", "session.idle", "session.error",
                    "session.start"} :
          Step(HandleWaitEvent(Cur, [sid |-> sid, call |-> "none",
                                     name |-> type], order))

\* ------------------------------------------------------ CopilotClient(...)
\* Texts are sequences of characters.
Localhost == <<"l", "o", "c", "a", "l", "h", "o", "s", "t">>

NoCtor == [args |-> <<>>, out |-> "ok", err |-> "none", host |-> Localhost, port |-> 0]

\* Mutation: the port is not checked against the range of port numbers.
ParseCliUrlAnyPort(url) ==
    LET Digit == <<"0", "1", "2", "3", "4", "5", "6", "7", "8", "9">>
        Val(c) == (CHOOSE d \in 1..10 : Digit[d] = c) - 1
        AllDigits(t) == t # <<>> /\ \A i \in 1..Len(t) : \E d \in 1..10 : Digit[d] = t[i]
        RECURSIVE Num(_)
        Num(t) == IF t = <<>> THEN 0
                  ELSE 10 * Num(SubSeq(t, 1, Len(t) - 1)) + Val(t[Len(t)])
        colons == {i \in 1..Len(url) : url[i] = ":"}
        k == CHOOSE i \in colons : TRUE
    IN IF AllDigits(url)
       THEN [ok |-> TRUE, err |-> "none", host |-> Localhost, port |-> Num(url)]
       ELSE IF Cardinality(colons) # 1 \/ ~AllDigits(SubSeq(url, k + 1, Len(url)))
            THEN [ok |-> FALSE, err |-> "format", host |-> <<>>, port |-> 0]
            ELSE [ok |-> TRUE, err |-> "none",
                  host |-> IF k = 1 THEN Localhost ELSE SubSeq(url, 1, k - 1),
                  port |-> Num(SubSeq(url, k + 1, Len(url)))]

\* CopilotClient._parse_cli_url: the result (host, port), or the ValueError
\* raised ("format": Invalid cli_url format, "port": Invalid port in cli_url).
ParseCliUrl(url) ==
    LET Digit == <<"0", "1", "2", "3", "4", "5", "6", "7", "8", "9">>
        Val(c) == (CHOOSE d \in 1..10 : Digit[d] = c) - 1
        \* str.isdigit
        AllDigits(t) == t # <<>> /\ \A i \in 1..Len(t) : \E d \in 1..10 : Digit[d] = t[i]
        RECURSIVE Num(_)
        Num(t) == IF t = <<>> THEN 0
                  ELSE 10 * Num(SubSeq(t, 1, Len(t) - 1)) + Val(t[Len(t)])
        \* int(text): an optional sign and digits, a ValueError otherwise (the
        \* blanks and underscores int() allows do not occur in the texts)
        ToInt(t) == IF AllDigits(t) THEN [ok |-> TRUE, n |-> Num(t)]
                  ELSE IF t # <<>> /\ Head(t) \in {"-", "+"} /\ AllDigits(Tail(t))
                       THEN [ok |-> TRUE,
                             n |-> IF Head(t) = "-" THEN 0 - Num(Tail(t))
                                   ELSE Num(Tail(t))]
                       ELSE [ok |-> FALSE, n |-> 0]
        StartsWith(t, pre) == Len(t) >= Len(pre) /\ SubSeq(t, 1, Len(pre)) = pre
        Http == <<"h", "t", "t", "p", ":", "/", "/">>
        Https == <<"h", "t", "t", "p", "s", ":", "/", "/">>
        \* re.sub(r"^https?://", "", url)
        clean == IF StartsWith(url, Https) THEN SubSeq(url, Len(Https) + 1, Len(url))
                 ELSE IF StartsWith(url, Http) THEN SubSeq(url, Len(Http) + 1, Len(url))
                 ELSE url
        \* clean_url.split(":")
        colons == {i \in 1..Len(clean) : clean[i] = ":"}
        k == CHOOSE i \in colons : TRUE
        Fail(e) == [ok |-> FALSE, err |-> e, host |-> <<>>, port |-> 0]
        Checked(host, port) ==
            IF port <= 0 \/ port > 65535 THEN Fail("port")
            ELSE [ok |-> TRUE, err |-> "none", host |-> host, port |-> port]
    IN IF AllDigits(clean)
       THEN Checked(Localhost, Num(clean))
       ELSE IF Cardinality(colons) # 1
            THEN Fail("format")
            ELSE LET port == ToInt(SubSeq(clean, k + 1, Len(clean))) IN
                 IF ~port.ok THEN Fail("port")
                 ELSE Checked(IF k = 1 THEN Localhost ELSE SubSeq(clean, 1, k - 1),
                              port.n)

\* Mutation: the credentials are not checked against cli_url.
ClientInitNoAuthCheck(a) ==
    LET url == a.cli_url.text # <<>>
        parsed == ParseCliUrl(a.cli_url.text)
        Raise(e) == [out |-> "raise", err |-> e, external |-> FALSE, stdio |-> FALSE,
                     autoStart |-> FALSE, host |-> Localhost, port |-> 0]
    IN IF url /\ (a.use_stdio = "true" \/ a.cli_path # "")
       THEN Raise("exclusive")
       ELSE IF url /\ ~parsed.ok
            THEN Raise(parsed.err)
            ELSE IF ~url /\ a.cli_path = "" /\ ~a.bundled
                 THEN Raise("no cli")
                 ELSE [out |-> "ok", err |-> "none", external |-> url,
                       stdio |-> ~url /\ a.use_stdio # "false",
                       autoStart |-> a.auto_start # "false",
                       host |-> IF url THEN parsed.host ELSE Localhost,
                       port |-> IF url THEN parsed.port ELSE 0]

\* CopilotClient.__init__ on the options a: the exception it raises
\* ("exclusive", "auth": ValueError of the option checks; "format", "port":
\* ValueError of _parse_cli_url; "no cli": RuntimeError), or the fields it
\* leaves. An option that is not given and one given as None or as an empty
\* text are the same to opts.get(...) where it is tested for truth: both are
\* written "" (<<>> for cli_url); use_stdio, use_logged_in_user and auto_start
\* are "none" (not given), "true" or "false".
ClientInit(a) ==
    LET url == a.cli_url.text # <<>>
        parsed == ParseCliUrl(a.cli_url.text)
        Raise(e) == [out |-> "raise", err |-> e, external |-> FALSE, stdio |-> FALSE,
                     autoStart |-> FALSE, host |-> Localhost, port |-> 0]
    IN IF url /\ (a.use_stdio = "true" \/ a.cli_path # "")
       THEN Raise("exclusive")
       ELSE IF url /\ (a.github_token # "" \/ a.use_logged_in_user # "none")
            THEN Raise("auth")
            ELSE IF url /\ ~parsed.ok
                 THEN Raise(parsed.err)
                 ELSE IF ~url /\ a.cli_path = "" /\ ~a.bundled
                      THEN Raise("no cli")
                      ELSE [out |-> "ok", err |-> "none", external |-> url,
                            stdio |-> ~url /\ a.use_stdio # "false",
                            autoStart |-> a.auto_start # "false",
                            host |-> IF url THEN parsed.host ELSE Localhost,
                            port |-> IF url THEN parsed.port ELSE 0]

\* The endpoint texts an application passes as cli_url, written out from their
\* parts as str(port), host + ":" + str(port) and scheme + "://" + ...; the
\* parts are kept with the text. n is the port number of the text where it
\* has one, host the host where it has one.
CliUrls ==
    LET PortNumbers == {0 - 1, 0, 1, 443, 65535, 65536}
        Digit == <<"0", "1", "2", "3", "4", "5", "6", "7", "8", "9">>
        RECURSIVE Str(_)
        Str(n) == IF n < 0 THEN <<"-">> \o Str(0 - n)
                  ELSE IF n < 10 THEN <<Digit[n + 1]>>
                  ELSE Str(n \div 10) \o <<Digit[(n % 10) + 1]>>
        Scheme(x) == CASE x = "http" -> <<"h", "t", "t", "p", ":", "/", "/">>
                       [] x = "https" -> <<"h", "t", "t", "p", "s", ":", "/", "/">>
                       [] x = "ftp" -> <<"f", "t", "p", ":", "/", "/">>
                       [] OTHER -> <<>>
        Hosts == {<<>>, <<"h">>, <<"1", ".", "2">>}
        Url(form, scheme, host, n, text) ==
            [form |-> form, scheme |-> scheme, host |-> host, n |-> n, text |-> text]
    IN {Url("absent", "", <<>>, 0, <<>>)}
       \cup {Url("port", x, <<>>, n, Scheme(x) \o Str(n)) :
                 x \in {"", "http", "https", "ftp"}, n \in PortNumbers}
       \cup {Url("host:port", x, h, n, Scheme(x) \o h \o <<":">> \o Str(n)) :
                 x \in {"", "http", "https", "ftp"}, h \in Hosts, n \in PortNumbers}
       \cup {Url("other", "", <<>>, 0, t) :
                 t \in {<<"h">>, <<"h", ":">>, <<"h", ":", "8", "a">>,
                        <<"h", ":", "8", ":", "9">>, <<"8", "a">>,
                        <<"h", ":", "8", "/", "p">>, <<":">>}}

\* The options an application passes to CopilotClient(...).
CtorArgs ==
    [cli_url : CliUrls, cli_path : {"", "/bin/copilot"},
     use_stdio : {"none", "true", "false"}, github_token : {"", "token"},
     use_logged_in_user : {"none", "true", "false"}, auto_start : {"none", "false"},
     bundled : BOOLEAN]

\* CopilotClient(options) is called.
Construct ==
    /\ ctor.out = "none"
    /\ LET made == ClientInit(ctor.args) IN
       Step([Cur EXCEPT !.ctor = [args |-> ctor.args, out |-> made.out,
                                  err |-> made.err, host |-> made.host,
                                  port |-> made.port],
                        !.opts = IF made.out = "ok"
                                 THEN [external |-> made.external, stdio |-> made.stdio,
                                       autoStart |-> made.autoStart,
                                       confs |-> {"c0"}, trace |-> FALSE]
                                 ELSE @,
                        !.portKnown = made.out = "ok" /\ made.external])

\* The options a client can be constructed with: attached to an external
\* endpoint (never stdio), or spawning its own process in stdio or TCP mode.
Options(confs) ==
    {o \in [external : BOOLEAN, stdio : BOOLEAN, autoStart : BOOLEAN,
            confs : {confs}, trace : {FALSE}] : o.external => ~o.stdio}

\* The state CopilotClient.__init__ leaves.
Constructed(o, tasks) ==
    /\ opts = o
    /\ active = tasks
    /\ state = "disconnected" /\ client = None /\ process = None
    /\ portKnown = o.external
    /\ transports = <<>> /\ procs = <<>> /\ signals = {}
    /\ sessions = <<>> /\ objs = <<>>
    /\ cache = None /\ lists = [l \in ListIds |-> FreeList] /\ lock = "free" /\ waiters = <<>>
    /\ pc = [t \in Tasks |-> "idle"]
    /\ tloc = [t \in Tasks |-> NoLoc]
    /\ res = NoRes
    /\ held = [t \in Tasks |-> None]
    /\ last = NoLast
    /\ meter = NoMeter
    /\ lifecycle = [typed |-> [T \in LcTypes |-> <<>>], wild |-> <<>>,
                    regs |-> <<>>]
    /\ remote = {}
    /\ guard = NoGuard
    /\ pending = EmptyBag
    /\ ctor = IF "args" \in DOMAIN o
              THEN [NoCtor EXCEPT !.args = o.args, !.out = "none"]
              ELSE NoCtor
    /\ log = [n |-> 0, at |-> [h \in EvHandlers \cup Tasks |-> 0 - 1],
              got |-> [h \in EvHandlers \cup Tasks |-> <<>>]]

\* ========================================================= specifications
\* Life cycle: one caller at a time drives a freshly constructed client through
\* start, stop, force_stop and create_session.
Init == \E o \in Options({"c1"}) : Constructed(o, {"t1"})

Next ==
    \/ \E t \in Tasks : Start(t)
    \/ \E t \in Tasks : StartPort(t)
    \/ \E t \in Tasks : StartConn(t)
    \/ \E t \in Tasks : StartPing(t)
    \/ \E t \in Tasks : Stop(t)
    \/ \E t \in Tasks : StopDestroy(t)
    \/ \E t \in Tasks : StopClosed(t)
    \/ \E t \in Tasks : ForceStop(t)
    \/ \E t \in Tasks : ForceStopClosed(t)
    \/ \E t \in Tasks : CreateSession(t)
    \/ \E t \in Tasks : SessionResp(t)

Spec == Init /\ [][Next]_vars

\* Router: one caller creates sessions of every configuration on an
\* auto-starting stdio client and destroys them, while the remote sends
\* tool.call and permission.request.
RouterInit ==
    Constructed([external |-> FALSE, stdio |-> TRUE, autoStart |-> TRUE,
                 confs |-> ConfigIds, trace |-> FALSE], {"t1"})

RouterNext ==
    \/ \E t \in Tasks : CreateSession(t)
    \/ \E t \in Tasks : StartPing(t)
    \/ \E t \in Tasks : SessionResp(t)
    \/ \E t \in Tasks : Destroy(t)
    \/ \E t \in Tasks : DestroyResp(t)
    \/ ToolCall
    \/ PermissionRequest
    \/ ResultDone

RouterSpec == RouterInit /\ [][RouterNext]_vars

\* Events: one caller creates and resumes sessions and subscribes to and
\* unsubscribes from their events, while the remote sends session.event.
EventInit ==
    Constructed([external |-> FALSE, stdio |-> TRUE, autoStart |-> TRUE,
                 confs |-> {"c0"}, trace |-> FALSE], {"t1"})

EventNext ==
    \/ \E t \in Tasks : CreateSession(t)
    \/ \E t \in Tasks : ResumeSession(t)
    \/ \E t \in Tasks : StartPing(t)
    \/ \E t \in Tasks : SessionResp(t)
    \/ Subscribe
    \/ Unsub
    \/ SessionEvent

EventSpec == EventInit /\ [][EventNext]_vars

\* Models cache: two callers share a client attached to an external server.
\* The first starts and force-stops it; both call list_models concurrently and
\* change the lists they were given.
ModelsInit ==
    Constructed([external |-> TRUE, stdio |-> FALSE, autoStart |-> FALSE,
                 confs |-> {"c0"}, trace |-> FALSE], Tasks)

ModelsNext ==
    \/ Start("t1")
    \/ StartPing("t1")
    \/ ForceStop("t1")
    \/ ForceStopClosed("t1")
    \/ ForceStopLocked("t1")
    \/ \E t \in Tasks : ListModels(t)
    \/ \E t \in Tasks : ListLockGranted(t)
    \/ \E t \in Tasks : ModelsResp(t)
    \/ \E t \in Tasks : Mutate(t)

ModelsSpec == ModelsInit /\ [][ModelsNext]_vars

\* Races: the first caller starts the client and creates sessions while the
\* second caller stops or force-stops it.
RaceInit ==
    Constructed([external |-> TRUE, stdio |-> FALSE, autoStart |-> FALSE,
                 confs |-> {"c0"}, trace |-> FALSE], Tasks)

RaceNext ==
    \/ Start("t1")
    \/ StartPing("t1")
    \/ CreateSession("t1")
    \/ SessionResp("t1")
    \/ Stop("t2")
    \/ StopDestroy("t2")
    \/ StopClosed("t2")
    \/ ForceStop("t2")
    \/ ForceStopClosed("t2")

RaceSpec == RaceInit /\ [][RaceNext]_vars

\* Sessions: one caller of an auto-starting pipe-mode client creates sessions
\* with tools and a permission handler, subscribes to them, reads their
\* history, destroys and deletes them.
SessionsInit ==
    Constructed([external |-> FALSE, stdio |-> TRUE, autoStart |-> TRUE,
                 confs |-> {"c1"}, trace |-> FALSE], {"t1"})

SessionsNext ==
    \/ \E t \in Tasks : CreateSession(t)
    \/ \E t \in Tasks : StartPing(t)
    \/ \E t \in Tasks : SessionResp(t)
    \/ \E t \in Tasks : Destroy(t)
    \/ \E t \in Tasks : DestroyResp(t)
    \/ \E t \in Tasks : DeleteSession(t)
    \/ \E t \in Tasks : DeleteResp(t)
    \/ \E t \in Tasks : GetMessages(t)
    \/ \E t \in Tasks : GetMessagesResp(t)
    \/ \E o \in 1..Len(objs) : Step(On(Cur, o, "ea"))

SessionsSpec == SessionsInit /\ [][SessionsNext]_vars

\* Auto start: one caller of a client of any construction, with or without
\* auto_start, starts it and creates and resumes sessions.
AutoInit == \E o \in Options({"c0"}) : Constructed(o, {"t1"})

AutoNext ==
    \/ \E t \in Tasks : Start(t)
    \/ \E t \in Tasks : StartPort(t)
    \/ \E t \in Tasks : StartConn(t)
    \/ \E t \in Tasks : StartPing(t)
    \/ \E t \in Tasks : CreateSession(t)
    \/ \E t \in Tasks : ResumeSession(t)
    \/ \E t \in Tasks : SessionResp(t)

AutoSpec == AutoInit /\ [][AutoNext]_vars

\* Delivery: one caller creates sessions, subscribes to their events and
\* registers lifecycle handlers, while the remote sends session.event and
\* session.lifecycle.
DeliveryInit ==
    Constructed([external |-> FALSE, stdio |-> TRUE, autoStart |-> TRUE,
                 confs |-> {"c0"}, trace |-> FALSE], {"t1"})

DeliveryNext ==
    \/ \E t \in Tasks : CreateSession(t)
    \/ \E t \in Tasks : StartPing(t)
    \/ \E t \in Tasks : SessionResp(t)
    \/ Subscribe
    \/ SessionEvent
    \/ LifecycleOn
    \/ LifecycleEvent

DeliverySpec == DeliveryInit /\ [][DeliveryNext]_vars

\* Order: one caller creates sessions and subscribes to and unsubscribes from
\* their events while the remote sends session.event; the deliveries are
\* recorded.
OrderInit ==
    Constructed([external |-> FALSE, stdio |-> TRUE, autoStart |-> TRUE,
                 confs |-> {"c0"}, trace |-> TRUE], {"t1"})

OrderNext ==
    \/ \E t \in Tasks : CreateSession(t)
    \/ \E t \in Tasks : StartPing(t)
    \/ \E t \in Tasks : SessionResp(t)
    \/ Subscribe
    \/ Unsub
    \/ SessionEvent

OrderSpec == OrderInit /\ [][OrderNext]_vars

\* Lifecycle handlers: the application of a client attached to an external
\* server registers lifecycle handlers and calls the unsubscribe functions it
\* was given, any number of times, while the remote sends session.lifecycle.
LifecycleNext ==
    \/ \E t \in Tasks : Start(t)
    \/ \E t \in Tasks : StartPing(t)
    \/ LifecycleOn
    \/ LifecycleOff
    \/ LifecycleEvent

LifecycleSpec ==
    /\ Constructed([external |-> TRUE, stdio |-> FALSE, autoStart |-> FALSE,
                    confs |-> {"c0"}, trace |-> TRUE], {"t1"})
    /\ [][LifecycleNext]_vars

\* Locks: one caller of an auto-starting client, in pipe mode or attached to an
\* external server over a socket, creates one fully configured session,
\* subscribes to it and registers a lifecycle handler, while the remote sends
\* every inbound request and notification and callbacks may be awaited.
LocksInit ==
    \E o \in {x \in Options({"c1"}) : x.autoStart /\ (x.external \/ x.stdio)} :
        Constructed(o, {"t1"})

LocksNext ==
    \/ \E t \in Tasks : objs = <<>> /\ CreateSession(t)
    \/ \E t \in Tasks : StartPing(t)
    \/ \E t \in Tasks : SessionResp(t)
    \/ \E o \in 1..Len(objs) : Step(On(Cur, o, "ea"))
    \/ Step(ClientOn(Cur, "*", "ea"))
    \/ ToolCall
    \/ PermissionRequest
    \/ UserInputRequest
    \/ HooksInvoke
    \/ ResultDone
    \/ SessionEvent
    \/ LifecycleEvent

LocksSpec == LocksInit /\ [][LocksNext]_vars

\* Registry: one caller of an auto-starting pipe-mode client creates, resumes
\* and deletes sessions; every request can succeed, be refused or fail.
RegistryNext ==
    \/ \E t \in Tasks : CreateSession(t)
    \/ \E t \in Tasks : ResumeSession(t)
    \/ \E t \in Tasks : StartPing(t)
    \/ \E t \in Tasks : SessionResp(t)
    \/ \E t \in Tasks : DeleteSession(t)
    \/ \E t \in Tasks : DeleteResp(t)

RegistrySpec == EventInit /\ [][RegistryNext]_vars

\* Resume: one caller of an auto-starting pipe-mode client creates sessions with
\* tools and a permission handler, resumes them and subscribes to them, while
\* the remote sends tool.call, permission.request and session.event.
ResumeNext ==
    \/ \E t \in Tasks : CreateSession(t)
    \/ \E t \in Tasks : ResumeSession(t)
    \/ \E t \in Tasks : StartPing(t)
    \/ \E t \in Tasks : SessionResp(t)
    \/ \E o \in 1..Len(objs) : Step(On(Cur, o, "ea"))
    \/ ToolCall
    \/ PermissionRequest
    \/ ResultDone
    \/ SessionEvent

ResumeSpec == SessionsInit /\ [][ResumeNext]_vars

\* Waiting: one caller of an auto-starting pipe-mode client creates sessions,
\* subscribes to them between its calls and calls send_and_wait, while the
\* remote sends session events of several types.
WaitNext ==
    \/ \E t \in Tasks : CreateSession(t)
    \/ \E t \in Tasks : StartPing(t)
    \/ \E t \in Tasks : SessionResp(t)
    \/ \E t \in Tasks : SendAndWait(t)
    \/ \E t \in Tasks : SendResp(t)
    \/ \E t \in Tasks : WaitDone(t)
    \/ \E o \in 1..Len(objs) : Idle("t1") /\ Step(On(Cur, o, "ea"))
    \/ WaitEvent

WaitSpec == EventInit /\ [][WaitNext]_vars

\* After destroy: one caller of an auto-starting pipe-mode client creates one
\* fully configured session, subscribes to it and destroys it, while the remote
\* sends every inbound request and session.event and callbacks may be awaited.
AfterDestroyNext ==
    \/ \E t \in Tasks : objs = <<>> /\ CreateSession(t)
    \/ \E t \in Tasks : StartPing(t)
    \/ \E t \in Tasks : SessionResp(t)
    \/ \E t \in Tasks : Destroy(t)
    \/ \E t \in Tasks : DestroyResp(t)
    \/ \E o \in 1..Len(objs) : Step(On(Cur, o, "ea"))
    \/ ToolCall
    \/ PermissionRequest
    \/ UserInputRequest
    \/ HooksInvoke
    \/ ResultDone
    \/ SessionEvent

AfterDestroySpec == SessionsInit /\ [][AfterDestroyNext]_vars

\* Inbound requests: one caller creates sessions of every configuration on an
\* auto-starting stdio client while the remote sends requests of its four
\* methods.
InboundNext ==
    \/ \E t \in Tasks : CreateSession(t)
    \/ \E t \in Tasks : StartPing(t)
    \/ \E t \in Tasks : SessionResp(t)
    \/ ToolCall
    \/ PermissionRequest
    \/ UserInputRequest
    \/ HooksInvoke
    \/ ResultDone

InboundSpec == RouterInit /\ [][InboundNext]_vars

\* Construction: CopilotClient(options) is called with every combination of
\* the options.
ConstructSpec ==
    /\ \E a \in CtorArgs :
          Constructed([external |-> FALSE, stdio |-> TRUE, autoStart |-> TRUE,
                       confs |-> {"c0"}, trace |-> FALSE, args |-> a], {})
    /\ [][Construct]_vars

\* ============================================================= properties
\* C1: a permission.request that names a registered session and carries a
\* permissionRequest is answered with a result; when the session has no
\* permission handler, or its handler raises, the kind of the result is
\* exactly DeniedNoRule; the result approves only when the handler registered
\* on that session was called and returned the approval itself. The handler is
\* the one registered when the request arrives, and the answer comes in that
\* step or, when the handler is awaited, in a later one.
C1_PermissionFailsClosed ==
    /\ (/\ last.method = "permission.request" /\ last.calls = last.ran
        /\ last.sid # "none" /\ last.name # "none"
        /\ Lookup(sessions, last.sid) # None) =>
           LET o == Lookup(sessions, last.sid)
               h == objs[o].perm
           IN /\ last.out \in {"result", "pending"}
              /\ last.ran = IF h = "none" THEN <<>>
                            ELSE <<[obj |-> o, kind |-> "permission", h |-> h]>>
              /\ h = "none" =>
                    (last.out = "result" /\ last.result.kind = DeniedNoRule)
    /\ (/\ last.method = "permission.request" /\ last.ran # <<>>
        /\ last.out # "pending") =>
           LET h == last.ran[1].h IN
           /\ last.out = "result"
           /\ PermBehave(h).raises => last.result.kind = DeniedNoRule
           /\ last.result.kind = "approved" =>
                 /\ ~PermBehave(h).raises
                 /\ PermBehave(h).value.kind = "approved"
    /\ (last.method = "permission.request" /\ last.result.kind = "approved") =>
           last.ran # <<>>

\* A registered session whose permission handler raises was asked, the handler
\* was called, and the request was denied.
C1_Witness ==
    /\ last.method = "permission.request"
    /\ Lookup(sessions, last.sid) # None
    /\ objs[Lookup(sessions, last.sid)].perm = "pRaise"
    /\ Len(last.calls) = 1
    /\ last.result.kind = DeniedNoRule

\* C2: when the handler registered for the tool of a tool.call raises, or
\* returns None, the request is answered with a result (not an error) of type
\* failure; after an exception the text for the caller is the one fixed
\* message, whatever the exception message is, and the exception message is in
\* the error field only.
\* The handler is the one registered when the request arrives, and the answer
\* comes in that step or, when the handler is awaited, in a later one.
C2_ToolFailureIsGeneric ==
    /\ (/\ last.method = "tool.call" /\ last.calls = last.ran
        /\ last.sid # "none" /\ last.call # "none" /\ last.name # "none"
        /\ Lookup(sessions, last.sid) # None
        /\ GetToolHandler(Cur, Lookup(sessions, last.sid), last.name) # "none") =>
           last.ran = <<[obj |-> Lookup(sessions, last.sid), kind |-> "tool",
                         h |-> GetToolHandler(Cur, Lookup(sessions, last.sid),
                                              last.name)]>>
    /\ (/\ last.method = "tool.call" /\ last.ran # <<>>
        /\ last.out # "pending") =>
           LET b == ToolBehave(last.ran[1].h)
           IN /\ b.raises =>
                    /\ last.out = "result"
                    /\ last.result.rtype = "failure"
                    /\ last.result.text = ToolErrorText
                    /\ ~Contains(last.result.text, b.msg)
                    /\ last.result.error = <<b.msg>>
              /\ (~b.raises /\ b.value = PyNone) =>
                    /\ last.out = "result"
                    /\ last.result.rtype = "failure"
                    /\ last.result.text = <<"Tool returned no result.">>
                    /\ last.result.error = <<"tool returned no result">>

\* A tool whose handler raises "boomB" was called and awaited, and the request
\* is answered when it ends.
C2_Witness ==
    /\ last.method = "tool.call"
    /\ last.calls = <<>> /\ Len(last.ran) = 1
    /\ last.ran[1].h = "tRaiseB"
    /\ last.result.error = <<"boomB">>
    /\ last.result.text = ToolErrorText

\* C3: a tool.call that names a registered session and a tool for which that
\* session has no handler is answered with a result (not an error) of type
\* failure whose error text contains the tool name, and no handler of any
\* session is called.
C3_UnknownToolFails ==
    (/\ last.method = "tool.call" /\ last.calls = last.ran
     /\ last.sid # "none" /\ last.call # "none" /\ last.name # "none"
     /\ Lookup(sessions, last.sid) # None
     /\ GetToolHandler(Cur, Lookup(sessions, last.sid), last.name) = "none") =>
        /\ last.out = "result"
        /\ last.result.rtype = "failure"
        /\ Contains(last.result.error, last.name)
        /\ last.calls = <<>>

\* A tool was asked of a registered session that has no handler for it while
\* another session object has one.
C3_Witness ==
    /\ last.method = "tool.call"
    /\ last.name = "grep"
    /\ Lookup(sessions, last.sid) # None
    /\ last.result.rtype = "failure"
    /\ last.ran = <<>>
    /\ \E o \in 1..Len(objs) : objs[o].tools["grep"] # "none"

\* C4: a session.event notification never ends in an error; it calls the
\* subscribers of the session object registered under its session id, each
\* exactly once, and no subscriber of any other session object; when no
\* session is registered under the id it calls nobody.
C4_EventsReachRegisteredSession ==
    last.method = "session.event" =>
        LET o == Lookup(sessions, last.sid) IN
        /\ last.out = "result"
        /\ o = None => last.calls = <<>>
        /\ o # None =>
              /\ \A i \in 1..Len(last.calls) :
                    /\ last.calls[i].obj = o
                    /\ last.calls[i].kind = "event"
                    /\ last.calls[i].h \in objs[o].events
              /\ \A h \in objs[o].events :
                    Cardinality({i \in 1..Len(last.calls) : last.calls[i].h = h}) = 1

\* An event arrived for an id under which a second session object replaced the
\* first; both have subscribers and the two of the registered one were called.
C4_Witness ==
    /\ last.method = "session.event"
    /\ Lookup(sessions, last.sid) # None
    /\ Len(last.calls) = 2
    /\ \E o \in 1..Len(objs) :
          /\ o # Lookup(sessions, last.sid)
          /\ objs[o].sid = last.sid
          /\ objs[o].events # {}

\* C5 as stated: a caller that called list_models on a connected client with a
\* cold cache while another caller's call was under way (it had to wait for
\* the lock) issues no models.list request beyond the one of that period.
C5_AtMostOneRequest ==
    \A t \in Tasks :
        (/\ pc[t] = "models_resp" /\ tloc[t].waited
         /\ tloc[t].pre.state = "connected" /\ ~tloc[t].pre.cached) =>
            meter.reqs # "many"

\* C5 as amended: at most one models.list request is outstanding at any time,
\* it is outstanding only while its issuer holds the lock and the cache is
\* cold, and a second request is issued in a cold period only after a request
\* of that period failed.
C5_OneRequestAtATime ==
    /\ Cardinality({t \in Tasks : pc[t] = "models_resp"}) <= 1
    /\ \A t \in Tasks : pc[t] = "models_resp" => lock = t /\ cache = None
    /\ meter.reqs = "many" => meter.failed

\* A caller that called list_models while the cache was cold and another
\* caller's request was outstanding was answered from the cache, without a
\* request of its own.
C5_Witness ==
    /\ res.op = "list_models" /\ res.out = "ok"
    /\ ~res.pre.cached /\ res.pre.state = "connected"
    /\ res.sent = <<>>
    /\ meter.reqs = "0" /\ cache # None

\* C6: the list a list_models call returns is an object of its own: it is not
\* the cache and not the list another caller holds; the cache keeps the
\* elements the server sent and a held list is changed by its holder only, so
\* a list nobody changed has the elements the server sent.
C6_ListsAreCopies ==
    /\ cache # None => lists[cache].items = ModelsData /\ lists[cache].by = {}
    /\ \A t \in Tasks : held[t] # None =>
          /\ held[t] # cache
          /\ \A u \in Tasks \ {t} : held[u] # held[t]
          /\ lists[held[t]].by \subseteq {t}
          /\ lists[held[t]].by = {} => lists[held[t]].items = ModelsData

\* One caller changed its list; the cache is warm and the other caller holds a
\* list it did not change.
C6_Witness ==
    /\ cache # None
    /\ \E t \in Tasks, u \in Tasks :
          /\ t # u /\ held[t] # None /\ held[u] # None
          /\ lists[held[t]].by = {t} /\ lists[held[t]].items # ModelsData
          /\ lists[held[u]].by = {}

\* C7: a stop() call that follows a stop() call, or is made on a disconnected
\* (or never started) client, returns its list and does not raise.
C7_StopTwiceNeverRaises ==
    (res.op = "stop" /\ (res.again \/ res.pre.state = "disconnected")) =>
        res.out = "ok"

\* C8: when a stop() call has finished, by returning or by raising, the state
\* is disconnected.
C8_StopEndsDisconnected ==
    res.op = "stop" => res.post.state = "disconnected"

\* C9: a finished stop() tried to destroy every session it took from the
\* registry; when destroys failed it still returned (the failures in its
\* list), with the transport closed and dropped, the cache cleared and, on a
\* client that spawns its server, the process released.
C9_StopCollectsFailures ==
    /\ res.op = "stop" => res.tried = res.taken
    /\ (res.op = "stop" /\ res.errs # <<>>) =>
          /\ res.out = "ok"
          /\ ~res.post.attached
          /\ ~res.post.cached
          /\ ~opts.external => res.post.proc = None

\* C10: a client constructed for an external server never spawns a process
\* and never calls terminate() or kill().
C10_ExternalProcessUntouched ==
    opts.external => procs = <<>> /\ signals = {}

\* stop() returned on a connected client of an external server that had a
\* session to destroy.
C10_Witness ==
    /\ opts.external
    /\ res.op = "stop" /\ res.out = "ok"
    /\ res.pre.state = "connected"
    /\ res.taken # <<>>
    /\ res.post.state = "disconnected"

\* C11: when stop() or force_stop() has returned on a client that spawns its
\* own server, in pipe mode and in socket mode alike, every process the client
\* spawned has been released, by one terminate() and at most one kill() or by
\* one kill(); a call that finds no process to release signals nothing.
C11_SpawnedProcessReleasedOnce ==
    (res.op \in {"stop", "force_stop"} /\ res.out = "ok" /\ ~opts.external) =>
        /\ \A p \in 1..Len(procs) :
              /\ ~procs[p].alive
              /\ procs[p].term <= 1 /\ procs[p].kill <= 1
              /\ procs[p].term + procs[p].kill >= 1
        /\ res.pre.proc = None => res.post.proc = None

\* C16: start() called on a client whose state is connected returns at once
\* and changes nothing: no process is spawned, no transport opened, no ping
\* (or any other request) sent, and state, transport, process, registry and
\* cache are as before.
C16_StartOnConnectedIsNoOp ==
    [][(res'.op = "start" /\ res'.pre.state = "connected") =>
          /\ res'.out = "ok"
          /\ res'.sent = <<>>
          /\ UNCHANGED <<state, client, process, portKnown, transports, procs,
                         signals, sessions, objs, cache>>]_vars

\* start() returned on a client that was connected when it was called.
C16_Witness ==
    /\ res.op = "start" /\ res.out = "ok"
    /\ res.pre.state = "connected" /\ res.pre.attached

\* C17: a start() (called directly, or run by an auto-starting create_session)
\* whose ping reply carries another protocol version, or none, raises and
\* leaves the client in state error with the transport torn down: closed and
\* no longer attached.
C17_VersionMismatchTearsDown ==
    (res.op \in {"start", "create", "resume"}
        /\ res.reply \in {"mismatch", "missing"}) =>
        /\ res.out = "raise"
        /\ res.post.state = "error"
        /\ ~res.post.attached
        /\ \A n \in 1..Len(transports) : ~transports[n]

\* C18: _state is always disconnected, connecting, connected or error. A step
\* makes it connected only when it was connecting, the step is the one in
\* which a start() got a ping reply with the expected version, and a running
\* transport is attached. A step makes it error only when it was connecting,
\* or when the step ran a start() from its first line, which sets connecting,
\* to its failure.
C18_StateMachine ==
    [][/\ state' \in {"disconnected", "connecting", "connected", "error"}
       /\ (state' = "connected" /\ state # "connected") =>
             /\ state = "connecting"
             /\ client' # None /\ transports'[client']
             /\ \E t \in Tasks :
                   /\ pc[t] = "start_ping"
                   /\ "match" = (IF pc'[t] = "idle" THEN res'.reply
                                 ELSE tloc'[t].reply)
       /\ (state' = "error" /\ state # "error") =>
             \/ state = "connecting"
             \/ /\ res'.op \in {"start", "create", "resume"}
                /\ pc[res'.task] = "idle"]_vars

\* C12: when session.destroy() has returned without raising, the session's
\* event-subscriber set is empty, its tool-handler table is empty and its
\* permission handler is unset.
C12_DestroyClearsHandlers ==
    (res.op = "destroy" /\ res.out = "ok") =>
        /\ objs[res.obj].events = {}
        /\ \A n \in ToolNames : objs[res.obj].tools[n] = "none"
        /\ objs[res.obj].perm = "none"

\* destroy() returned on a session that had a subscriber, tool handlers and a
\* permission handler when the reply came.
C12_Witness ==
    /\ res.op = "destroy" /\ res.out = "ok"
    /\ res.had = {"events", "tools", "perm"}
    /\ objs[res.obj].events = {}

\* C13: get_messages() returns only what the remote answered to a
\* session.getMessages request it sent, and for a session the remote no longer
\* has (destroyed or deleted there) it raises - with the remote's 'not found'
\* error whenever the remote answers - although the local handle still exists.
C13_GetMessagesAsksRemote ==
    res.op = "get_messages" =>
        /\ res.out = "ok" =>
              /\ res.sent = <<"session.getMessages">>
              /\ res.reply = "ok"
              /\ res.sid \in remote
        /\ res.sid \notin remote =>
              /\ res.out = "raise"
              /\ res.reply \in {"notfound", "fail", "none"}
              /\ res.reply = "none" <=> res.sent = <<>>

\* get_messages() raised 'not found' on the handle of a destroyed session that
\* is still in the registry.
C13_Witness ==
    /\ res.op = "get_messages" /\ res.out = "raise"
    /\ res.reply = "notfound"
    /\ res.sent = <<"session.getMessages">>
    /\ objs[res.obj].perm = "none"
    /\ Lookup(sessions, res.sid) = res.obj

\* C14: when session.destroy() has returned, and when delete_session(id) has
\* succeeded, no session is registered under that id; a well-formed tool.call
\* for an id whose session the remote has destroyed or deleted is answered
\* with the 'unknown session' error.
C14_DestroyedIsUnregistered ==
    /\ (res.op \in {"destroy", "delete"} /\ res.out = "ok") =>
          Lookup(sessions, res.sid) = None
    /\ (/\ last.method = "tool.call" /\ last.calls = last.ran
        /\ last.sid # "none" /\ last.call # "none" /\ last.name # "none"
        /\ last.sid \notin remote) =>
          (last.out = "error" /\ last.err = "unknown session")

\* C15: create_session and resume_session called with no transport attached:
\* with auto_start disabled the call raises in the step it was made, sends
\* nothing, spawns nothing, attaches nothing and leaves state and registry as
\* they were; with auto_start enabled the call runs start() first, so it ends
\* in state connected or error, its first request, if any, is the ping, and it
\* returns a session only after ping and the session request.
C15_NotConnectedUnlessAutoStart ==
    [][(res'.op \in {"create", "resume"} /\ ~res'.pre.attached) =>
          /\ ~opts.autoStart =>
                /\ res'.out = "raise"
                /\ res'.sent = <<>>
                /\ UNCHANGED <<state, client, process, portKnown, transports,
                               procs, signals, sessions, objs, remote>>
          /\ opts.autoStart =>
                /\ res'.post.state \in {"connected", "error"}
                /\ res'.sent # <<>> => Head(res'.sent) = "ping"
                /\ res'.out = "ok" =>
                      /\ Len(res'.sent) = 2
                      /\ res'.post.state = "connected"]_vars

\* resume_session raised on a client without auto_start whose start() had
\* failed before any transport was attached.
C15_Witness ==
    /\ res.op = "resume" /\ res.out = "raise"
    /\ ~opts.autoStart /\ ~res.pre.attached
    /\ res.pre.state = "error"
    /\ res.sent = <<>> /\ sessions = <<>>

\* C19: a session.event notification for a registered session calls every
\* subscriber of the session exactly once, those listed after a subscriber
\* that raises included, and ends without an error; a session.lifecycle
\* notification calls every typed handler of its type and then every wildcard
\* handler, those after a handler that raises included, and ends without an
\* error.
C19_RaisingHandlerIsContained ==
    /\ (last.method = "session.event" /\ Lookup(sessions, last.sid) # None) =>
          LET o == Lookup(sessions, last.sid) IN
          /\ last.out = "result"
          /\ Len(last.calls) = Cardinality(objs[o].events)
          /\ \A h \in objs[o].events : \E i \in 1..Len(last.calls) :
                last.calls[i] = [obj |-> o, kind |-> "event", h |-> h]
    /\ last.method = "session.lifecycle" =>
          LET hs == lifecycle.typed[last.name] \o lifecycle.wild IN
          /\ last.out = "result"
          /\ last.calls = [i \in 1..Len(hs) |->
                              [obj |-> None, kind |-> "lifecycle", h |-> hs[i]]]

\* An event was delivered to a session with two subscribers of which the one
\* called first raises, and the other one was still called.
C19_Witness ==
    /\ last.method = "session.event" /\ last.out = "result"
    /\ Len(last.calls) = 2
    /\ last.calls[1].h \in EvRaises
    /\ last.calls[2].h \notin EvRaises
    /\ \E i \in 1..Len(lifecycle.wild) : lifecycle.wild[i] \in EvRaises

\* C20: a subscriber of the session registered under the first session id,
\* subscribed since event number a, has been called with exactly the events
\* for that id numbered above a, each once and in increasing number, that is
\* in the order of arrival.
C20_EventsInArrivalOrder ==
    \A o \in 1..Len(objs) :
        objs[o].sid = IdSeq[1] =>
            \A h \in objs[o].events :
                LET g == log.got[h] IN
                /\ log.at[h] >= 0
                /\ {g[i] : i \in 1..Len(g)} = (log.at[h] + 1)..log.n
                /\ \A i, j \in 1..Len(g) : i < j => g[i] < g[j]

\* Every recorded event has arrived; a subscriber that joined after the first
\* event has received the later ones, and a subscriber that raises at every
\* event has received all of them.
C20_Witness ==
    /\ log.n = MaxEvents
    /\ log.at["ea"] = 1
    /\ Len(log.got["ea"]) = MaxEvents - 1
    /\ Len(log.got["eb"]) = MaxEvents

\* C21: a session.lifecycle notification of type T calls exactly the handlers
\* of the registrations whose unsubscribe function has not been called: first
\* those made for T, in the order in which they were made, then those made
\* for every type; a registration for another type, and one whose unsubscribe
\* function was called before, gets no call.
C21_TypedThenWildcardInOrder ==
    last.method = "session.lifecycle" =>
        LET Kept(type) == SelectSeq(lifecycle.regs,
                                    LAMBDA r : r.on /\ r.type = type)
            hs == Kept(last.name) \o Kept("*")
        IN last.calls = [i \in 1..Len(hs) |->
                            [obj |-> None, kind |-> "lifecycle", h |-> hs[i].h]]

\* C22: a userInput.request that names a registered session and carries a
\* question is answered with an error, and no callback is called, when the
\* session has no user-input handler; it is answered with an error when the
\* handler raises; it is answered with a result only when the session's
\* handler was called and returned, and the result is what it returned.
\* The handler is the one registered when the request arrives, and the answer
\* comes in that step or, when the handler is awaited, in a later one.
C22_UserInputFailsWithoutHandler ==
    /\ (/\ last.method = "userInput.request" /\ last.calls = last.ran
        /\ last.sid # "none" /\ last.name # "none"
        /\ Lookup(sessions, last.sid) # None) =>
           LET o == Lookup(sessions, last.sid)
               h == objs[o].uinput
           IN /\ h = "none" => (last.out = "error" /\ last.ran = <<>>)
              /\ h # "none" =>
                    last.ran = <<[obj |-> o, kind |-> "user_input", h |-> h]>>
    /\ (/\ last.method = "userInput.request" /\ last.ran # <<>>
        /\ last.out # "pending") =>
           LET h == last.ran[1].h IN
           /\ UserInputBehave(h).raises => last.out = "error"
           /\ last.out = "result" =>
                 /\ ~UserInputBehave(h).raises
                 /\ last.result = UserInputBehave(h).value
    /\ (last.method = "userInput.request" /\ last.out = "result") =>
           last.ran # <<>>

\* A session without a user-input handler was asked a question and the
\* request ended with an error, while another session has a handler.
C22_Witness ==
    /\ last.method = "userInput.request" /\ last.out = "error"
    /\ last.err = "no handler"
    /\ Lookup(sessions, last.sid) # None
    /\ objs[Lookup(sessions, last.sid)].uinput = "none"
    /\ \E o \in 1..Len(objs) : objs[o].uinput # "none"

\* C23: a hooks.invoke that names a registered session and carries a hook type
\* is answered with a result, never an error; the output is None when the
\* session has no hooks, when the hook type is not one of the six known, when
\* the hooks have no callback for the type, and when the callback raises;
\* a callback is called only in the last case and when it returns.
\* The callback is the one registered when the request arrives, and the
\* answer comes in that step or, when the callback is awaited, in a later one.
C23_HooksYieldNoOutput ==
    /\ (/\ last.method = "hooks.invoke" /\ last.calls = last.ran
        /\ last.sid # "none" /\ last.name # "none"
        /\ Lookup(sessions, last.sid) # None) =>
           LET o == Lookup(sessions, last.sid)
               hooks == objs[o].hooks
               known == last.name \in HookTypes
               h == IF hooks.given /\ known THEN hooks.dict[last.name] ELSE "none"
           IN /\ last.out \in {"result", "pending"}
              /\ (~hooks.given \/ ~known \/ h = "none") =>
                    (last.out = "result" /\ last.result = PyNone /\ last.ran = <<>>)
              /\ h # "none" =>
                    last.ran = <<[obj |-> o, kind |-> "hook", h |-> h]>>
    /\ (/\ last.method = "hooks.invoke" /\ last.ran # <<>>
        /\ last.out # "pending") =>
           /\ last.out = "result"
           /\ HookBehave(last.ran[1].h).raises => last.result = PyNone

\* A hook callback was called, raised, and the request ended with the output
\* None.
C23_Witness ==
    /\ last.method = "hooks.invoke" /\ last.out = "result"
    /\ last.result = PyNone
    /\ Len(last.ran) = 1
    /\ HookBehave(last.ran[1].h).raises

\* C24: a tool.call, permission.request, userInput.request or hooks.invoke
\* whose payload lacks a required field ends with the error 'invalid payload',
\* whether or not its session id is registered; one with every required field
\* whose session id is not registered ends with the error 'unknown session';
\* in both cases no callback is called and the registry and the sessions are
\* as they were.
C24_InvalidAndUnknownAreRejected ==
    [][last'.method \in {"tool.call", "permission.request", "userInput.request",
                         "hooks.invoke"} =>
          LET m == last'
              lacks == \/ m.sid = "none" \/ m.name = "none"
                       \/ (m.method = "tool.call" /\ m.call = "none")
              rejected == m.out = "error"
                          /\ m.err \in {"invalid payload", "unknown session"}
          IN /\ lacks => (m.out = "error" /\ m.err = "invalid payload")
             /\ (~lacks /\ m.calls = m.ran /\ Lookup(sessions, m.sid) = None) =>
                   (m.out = "error" /\ m.err = "unknown session")
             /\ rejected => (/\ m.calls = <<>>
                             /\ sessions' = sessions /\ objs' = objs)
             /\ rejected => (lacks \/ Lookup(sessions, m.sid) = None)]_vars

\* A hooks.invoke without a hook type, for a session id nobody is registered
\* under, was rejected as invalid while a session with hooks is registered.
C24_Witness ==
    /\ last.method = "hooks.invoke" /\ last.name = "none"
    /\ last.sid # "none" /\ Lookup(sessions, last.sid) = None
    /\ last.out = "error" /\ last.err = "invalid payload"
    /\ \E i \in 1..Len(sessions) : objs[sessions[i].obj].hooks.given

\* C25: when force_stop() has ended it has returned, not raised, also when
\* closing the transport failed; it sent no request, so no session.destroy;
\* the registry is empty, no transport is attached, the models cache is
\* cleared and the state is disconnected; and on a client that spawns its own
\* server every process the client spawned is dead, the one it held having
\* got kill() and no terminate().
C25_ForceStopSkipsAndKills ==
    res.op = "force_stop" =>
        /\ res.out = "ok"
        /\ res.sent = <<>>
        /\ res.post.nsess = 0 /\ ~res.post.attached /\ ~res.post.cached
        /\ res.post.state = "disconnected"
        /\ ~opts.external =>
              \A p \in 1..Len(procs) :
                  /\ ~procs[p].alive
                  /\ res.pre.proc = p => (procs[p].term = 0 /\ procs[p].kill = 1)

\* C26: CopilotClient(options) with a cli_url together with a cli_path, with
\* use_stdio true, with a github_token or with use_logged_in_user given (true
\* or false) raises a ValueError of the option checks, whatever the cli_url
\* text and the other options are, and leaves no process spawned and no
\* transport opened.
C26_EndpointExcludesLocalOptions ==
    LET a == ctor.args IN
    (/\ ctor.out # "none"
     /\ a.cli_url.text # <<>>
     /\ \/ a.cli_path # "" \/ a.use_stdio = "true"
        \/ a.github_token # "" \/ a.use_logged_in_user # "none") =>
        /\ ctor.out = "raise" /\ ctor.err \in {"exclusive", "auth"}
        /\ procs = <<>> /\ transports = <<>> /\ client = None /\ process = None

\* The constructor raised for a well-formed cli_url given with nothing but
\* use_logged_in_user false.
C26_Witness ==
    /\ ctor.out = "raise" /\ ctor.err = "auth"
    /\ ctor.args.cli_url.form = "host:port" /\ ctor.args.cli_url.n = 443
    /\ ctor.args.cli_url.scheme = ""
    /\ ctor.args.use_logged_in_user = "false"
    /\ ctor.args.github_token = "" /\ ctor.args.cli_path = ""
    /\ ctor.args.use_stdio = "none"

\* C27: with no option that excludes cli_url, a cli_url text written as
\* str(N), host:str(N), or either after http:// or https://, gives for N in
\* 1..65535 a client of an external server with port N and the host of the
\* text, localhost when the text has none, the same with and without the
\* scheme; for N <= 0 and N > 65535 the constructor raises the ValueError of
\* the parser, as it does for a port that is not a number, a text without or
\* with more than one colon, and a scheme other than http and https.
C27_EndpointParsing ==
    LET a == ctor.args
        u == a.cli_url
    IN (/\ ctor.out # "none" /\ u.form # "absent"
        /\ a.cli_path = "" /\ a.use_stdio # "true"
        /\ a.github_token = "" /\ a.use_logged_in_user = "none") =>
           IF u.form \in {"port", "host:port"} /\ u.scheme \in {"", "http", "https"}
                /\ u.n \in 1..65535
           THEN /\ ctor.out = "ok" /\ opts.external
                /\ ctor.port = u.n
                /\ ctor.host = IF u.host = <<>> THEN Localhost ELSE u.host
           ELSE ctor.out = "raise" /\ ctor.err \in {"format", "port"}

\* The constructor returned for the text https://65535.
C27_Witness ==
    /\ ctor.out = "ok"
    /\ ctor.args.cli_url.scheme = "https" /\ ctor.args.cli_url.form = "port"
    /\ ctor.args.cli_url.n = 65535
    /\ ctor.port = 65535 /\ ctor.host = Localhost

\* C28: no callback of the application (tool handler, permission handler,
\* user-input handler, hook, session event subscriber, lifecycle handler) is
\* called while the registry lock, the lifecycle-handler lock or a handler lock
\* of a session is held.
C28_NoCallbackUnderALock == guard.under = {}

\* An event was delivered to a subscriber in a step that took the registry lock
\* and the event-handler lock of the session.
C28_Witness ==
    /\ last.method = "session.event" /\ last.calls # <<>>
    /\ <<"registry", None>> \in guard.took
    /\ \E o \in 1..Len(objs) : <<"events", o>> \in guard.took

\* C29: every read and every write of the session registry happens while the
\* registry lock is held.
C29_RegistryOnlyUnderItsLock == ~guard.bare

\* C30: within one stop() call the registry is emptied first, in one acquisition
\* of its lock; then the destroy of each taken session is requested, in the
\* order taken; then the transport is closed; then the models cache is cleared;
\* then the process the client spawned is terminated; then the state is set to
\* disconnected. No destroy is requested after the transport was closed. A
\* stop() that returns has gone through all of these steps that apply to it.
C30_StopStepsInOrder ==
    res.op = "stop" =>
        LET s == res.steps
            Rank(x) == CASE x = "registry" -> 1 [] x = "destroy" -> 2
                         [] x = "close" -> 3 [] x = "cache" -> 4
                         [] x = "terminate" -> 5 [] x = "state" -> 6
            Of(x) == {i \in 1..Len(s) : s[i].step = x}
        IN
        /\ Of("registry") = {1}
        /\ \A i, j \in 1..Len(s) :
              i < j => \/ Rank(s[i].step) < Rank(s[j].step)
                       \/ s[i].step = "destroy" /\ s[j].step = "destroy"
        /\ res.tried = res.taken
        /\ Of("destroy") = {k + 1 : k \in 1..Len(res.taken)}
        /\ \A k \in 1..Len(res.taken) : s[k + 1].obj = res.taken[k]
        /\ \A i \in Of("destroy"), j \in Of("close") : i < j
        /\ res.out = "ok" =>
              /\ Of("close") # {} <=> res.pre.attached
              /\ Of("cache") # {}
              /\ Of("terminate") # {} <=> (res.pre.proc # None /\ ~opts.external)
              /\ Of("state") = {Len(s)}
              /\ ~res.post.attached /\ ~res.post.cached
              /\ res.post.state = "disconnected"
        /\ res.out # "ok" => Of("cache") \cup Of("terminate") \cup Of("state") = {}

\* A stop() that took two sessions, closed the transport and terminated the
\* process has returned.
C30_Witness ==
    /\ res.op = "stop" /\ res.out = "ok" /\ Len(res.taken) = 2
    /\ \E i, j \in 1..Len(res.steps) :
          res.steps[i].step = "close" /\ res.steps[j].step = "terminate"

\* C31: when a stop() call has finished, the session registry is empty and every
\* session it found registered was destroyed, also when a create_session call
\* was in flight while stop() was running.
C31_StopLeavesNoSession ==
    res.op = "stop" =>
        /\ sessions = <<>>
        /\ res.tried = res.taken

\* C32: a session.create or session.resume request is out, and a session gets
\* registered, only on a connection whose start() succeeded: with one caller at a
\* time, only while the state is connected.
C32_SessionsOnlyOnStartedConnection ==
    /\ \A t \in Tasks : pc[t] = "session_resp" /\ tloc[t].sent # <<>>
                             => state = "connected"
    /\ res.op \in {"create", "resume"} /\ res.out = "ok" => state = "connected"

\* C33: at most one process the client spawned is alive at a time, and a live
\* spawned process is the one the client refers to.
C33_OneSpawnedProcess ==
    \A p, q \in 1..Len(procs) :
        procs[p].alive => process = p /\ (procs[q].alive => p = q)

\* C34: the registry changes only in the step in which create_session,
\* resume_session or delete_session returns after a successful reply, and then
\* by exactly the entry of that call; a call that raises (remote error,
\* transport loss, delete refused) leaves the registry as it was.
C34_RegistryChangesOnlyOnSuccess ==
    [][sessions' # sessions =>
          /\ res'.out = "ok"
          /\ res'.op \in {"create", "resume", "delete"}
          /\ res'.op = "delete" =>
                res'.reply = "ok" /\ sessions' = Del(sessions, res'.sid)
          /\ res'.op # "delete" =>
                /\ Len(res'.sent) > 0
                /\ sessions' = Put(sessions, res'.sid, Len(objs'))
                /\ Len(objs') = Len(objs) + 1]_vars

\* A delete of a registered session was refused, and a resume of a registered
\* id failed, with the registry holding sessions.
C34_Witness ==
    /\ res.out = "raise" /\ sessions # <<>>
    /\ \/ res.op = "delete" /\ res.reply = "refused"
          /\ Lookup(sessions, res.sid) # None
       \/ res.op = "resume" /\ res.sent # <<>>
          /\ Lookup(sessions, res.sid) # None

\* C35: the registry holds at most one session object per session id; a
\* resume_session that returns gives a session object with the id that was asked
\* for and leaves that object registered under the id; and the callbacks invoked
\* for an inbound request or event belong to the newest session object made for
\* its session id.
C35_OneObjectPerId ==
    /\ [](\A i, j \in 1..Len(sessions) :
              sessions[i].sid = sessions[j].sid => i = j)
    /\ [](\A k \in 1..Len(last.calls) :
              /\ last.calls[k].obj = Lookup(sessions, last.sid)
              /\ \A o \in 1..Len(objs) :
                    objs[o].sid = last.sid => o <= last.calls[k].obj)
    /\ [][res'.op = "resume" /\ res'.out = "ok" =>
              /\ objs'[res'.obj].sid = tloc[res'.task].sid
              /\ Lookup(sessions', tloc[res'.task].sid) = res'.obj
              /\ res'.obj = Len(objs')]_vars

\* A tool.call for a session id that was resumed while registered ran the tool
\* handler of the newer of two session objects.
C35_Witness ==
    /\ last.method = "tool.call" /\ last.calls # <<>>
    /\ \E o \in 1..Len(objs) :
          /\ objs[o].sid = last.sid /\ o < last.calls[1].obj
          /\ ~objs[last.calls[1].obj].made

\* C36: force_stop() completes without waiting for a remote response: it is
\* never suspended behind a request, sent on a transport that is still running,
\* that only an answer of the remote ends.
C36_ForceStopWaitsForNoReply ==
    \A t, u \in Tasks :
        pc[t] = "fstop_lock" /\ lock = u /\ pc[u] = "models_resp"
            => ~IsOpen(Cur, tloc[u].tr)

\* C37: send_and_wait has its temporary subscriber registered while its
\* session.send request is out and while it waits; when the call ends, however it
\* ends, the session's subscriber set is the one the call found; a call ended by
\* the timeout raises and has sent nothing but session.send.
C37_SendAndWaitLeavesSubscribers ==
    /\ \A t \in Tasks : pc[t] \in {"send_resp", "wait_idle"} =>
                             t \in objs[tloc[t].obj].events
    /\ res.op = "send_and_wait" =>
          /\ objs[res.obj].events = res.subs
          /\ res.task \notin res.subs
          /\ res.reply = "timeout" =>
                res.out = "raise" /\ res.sent = <<"session.send">>
          /\ res.out = "ok" <=> res.reply = "idle"

\* A send_and_wait call on a session that has a subscriber ended by the timeout.
C37_Witness ==
    /\ res.op = "send_and_wait" /\ res.reply = "timeout"
    /\ res.subs = {"ea"}

\* C38: between the steps of the callers, which is where another task can look
\* at the client, state connected implies that a transport is attached and
\* state disconnected implies that none is.
C38_StateAgreesWithAttachment ==
    /\ state = "connected" => client # None
    /\ state = "disconnected" => client = None

\* C39: calling an unsubscribe function removes only the subscription it was
\* returned for: each lifecycle handler list holds one entry for every
\* registration made by client.on whose own unsubscribe function has not been
\* called, however often the others were called.
C39_UnsubscribeRemovesOnlyItsOwn ==
    \A T \in LcTypes \cup {"*"}, h \in EvHandlers :
        LET list == IF T = "*" THEN lifecycle.wild ELSE lifecycle.typed[T] IN
        Cardinality({k \in 1..Len(list) : list[k] = h})
            = Cardinality({i \in 1..Len(lifecycle.regs) :
                              lifecycle.regs[i] = [type |-> T, h |-> h, on |-> TRUE]})

\* C40: once destroy() of a session object has returned, no callback registered
\* on that object is invoked by an inbound request or notification.
C40_NoCallbackAfterDestroy ==
    \A k \in 1..Len(last.calls) : ~objs[last.calls[k].obj].gone

====
